---------------------------- MODULE Spec2Model ----------------------------
(***************************************************************************)
(* Model of md-to-docx: the HTML-to-DOCX translator of                     *)
(* MarkdownToDocxConverter.html_to_docx (src/md_to_docx.py).               *)
(*                                                                         *)
(* The translator is a push parser: html.parser.HTMLParser delivers        *)
(* StartTag / EndTag / Data events to HTMLToDocxParser, which drives a     *)
(* python-docx document.  The document is modelled as the sequence of its  *)
(* body blocks (paragraphs, headings, tables) in the order they were       *)
(* appended; text is a sequence of one-character strings.                  *)
(***************************************************************************)
EXTENDS Integers, Sequences, FiniteSets, TLC

VARIABLES
    doc,                \* self.doc: the body blocks of the document
    current_paragraph,  \* self.current_paragraph: None or a paragraph reference
    in_code,            \* self.in_code
    in_heading,         \* self.in_heading
    heading_level,      \* self.heading_level
    list_level,         \* self.list_level
    text_buffer,        \* self.text_buffer
    current_table,      \* self.current_table: None or a table reference
    current_row,        \* self.current_row: None or a row reference
    current_cell,       \* self.current_cell: None or a cell reference
    in_table_header,    \* self.in_table_header
    in_code_block,      \* self.in_code_block
    current_cell_index, \* self.current_cell_index (an attribute created late)
    pc,                 \* position of html_to_docx: "feeding", "done", "fault"
    fuel,               \* events the tokenizer may still deliver
    window,             \* how many delivered events `fed` remembers
    fed,                \* the most recent events delivered, oldest first
    raised,             \* the exception that left html_to_docx, or NoFault
    other,              \* a second call beside the first: its own parser or converter
    online,             \* the online converter: its settings, its generation under way
    markdown_content,   \* process_mermaid_diagrams: the Markdown text passed in
    processed_content,  \* process_mermaid_diagrams: processed_content
    diagram_images,     \* process_mermaid_diagrams: diagram_images
    pending,            \* process_mermaid_diagrams: diagrams the loop has yet to visit
    temp_files,         \* self.temp_files of the converter
    disk,               \* the temporary files that exist
    warnings,           \* paths cleanup_temp_files printed a warning for
    cursor,             \* cleanup_temp_files: position of its loop in temp_files
    cleanups,           \* calls of cleanup_temp_files that returned
    cpc                 \* position of the converter

vars == <<doc, current_paragraph, in_code, in_heading, heading_level,
          list_level, text_buffer, current_table, current_row, current_cell,
          in_table_header, in_code_block, current_cell_index, pc, fuel,
          window, fed, raised, other, online, markdown_content,
          processed_content,
          diagram_images, pending, temp_files, disk, warnings, cursor,
          cleanups, cpc>>

---------------------------------------------------------------------------
(* Bounds of the exploration.                                              *)

\* events delivered in a run of the unrestricted specification
MaxEvents == 4
\* heading levels the tokenizer draws from (h1 .. hMaxLevel)
MaxLevel == 2
\* events delivered in a run of SpecTable
MaxTableEvents == 6
\* events delivered in a run of SpecHeading
MaxHeadingEvents == 5
\* events delivered in a run of SpecTableShape
MaxShapeEvents == 13
\* events delivered inside the open cell in a run of SpecCell
MaxCellEvents == 3
\* events delivered in a run of SpecCode
MaxCodeEvents == 6
\* events delivered in a run of SpecDiv
MaxDivEvents == 5

\* length of the Markdown text in SpecMermaid, in units
MaxContent == 5

\* calls of cleanup_temp_files in SpecMermaid
MaxCleanups == 2

\* events of the translation in SpecInsert
MaxInsertEvents == 4

\* events of a call in SpecBuilder
MaxBuilderEvents == 3

\* events of the translation in SpecConvert
MaxConvertEvents == 2

\* events of each of two calls in SpecPair
MaxPairEvents == 2

---------------------------------------------------------------------------
(* Text.                                                                   *)

\* characters str.strip() removes; "\n" is what <br> puts in the buffer
Whitespace == {" ", "\n"}

IsBlank(t) == \A i \in 1..Len(t) : t[i] \in Whitespace

\* str.strip(): drop leading and trailing whitespace
strip(t) ==
    IF IsBlank(t) THEN <<>>
    ELSE LET first == CHOOSE i \in 1..Len(t) :
                         /\ t[i] \notin Whitespace
                         /\ \A j \in 1..(i-1) : t[j] \in Whitespace
             last  == CHOOSE i \in 1..Len(t) :
                         /\ t[i] \notin Whitespace
                         /\ \A j \in (i+1)..Len(t) : t[j] \in Whitespace
         IN  SubSeq(t, first, last)

\* number of non-whitespace characters of a text
NonWs(t) == Cardinality({i \in 1..Len(t) : t[i] \notin Whitespace})

\* needle in haystack, for Python's `in` on strings
IsSubstring(needle, hay) ==
    \E i \in 0..(Len(hay) - Len(needle)) :
        SubSeq(hay, i + 1, i + Len(needle)) = needle


---------------------------------------------------------------------------
(* The document (python-docx), as far as the translator drives it.         *)

\* Python's None, for the parser's references
None == <<>>

\* w:shd / w:pBdr / w:ind appended to w:pPr by the block-code branch
BlockCodePPr == <<"shd:E9ECEF", "pBdr:left:569CD6", "ind:340">>

PlainRun(t)      == [text |-> t, font |-> "", size |-> 0, color |-> "", shd |-> ""]
InlineCodeRun(t) == [text |-> t, font |-> "Courier New", size |-> 9,
                     color |-> "569CD6", shd |-> "F5F5F5"]
BlockCodeRun(t)  == [text |-> t, font |-> "Courier New", size |-> 9,
                     color |-> "212529", shd |-> ""]

\* Document.add_paragraph(style=...): an empty paragraph
NewParagraph(style) ==
    [kind |-> "paragraph", style |-> style, runs |-> <<>>, pPr |-> <<>>,
     level |-> 0, text |-> <<>>, cols |-> 0, rows |-> <<>>]

\* Document.add_heading(text, level)
NewHeading(t, n) ==
    [kind |-> "heading", style |-> "Heading", runs |-> <<>>, pPr |-> <<>>,
     level |-> n, text |-> t, cols |-> 0, rows |-> <<>>]

\* Document.add_table(rows=0, cols=0) with style 'Table Grid'
NewTable ==
    [kind |-> "table", style |-> "Table Grid", runs |-> <<>>, pPr |-> <<>>,
     level |-> 0, text |-> <<>>, cols |-> 0, rows |-> <<>>]

\* a cell as add_row / add_column make it: one empty paragraph
EmptyCell == [runs |-> <<>>, pPr |-> <<>>]

\* a cell after `cell.text = ''`: content cleared, one paragraph, one empty run
ClearedCell == [runs |-> <<PlainRun(<<>>)>>, pPr |-> <<>>]

\* Table.add_row(): one cell per grid column
add_row(d, b) ==
    [d EXCEPT ![b].rows = Append(@, [i \in 1..d[b].cols |-> EmptyCell])]

\* Table.add_column(width): a grid column, and a cell in every row
add_column(d, b) ==
    [d EXCEPT ![b].cols = @ + 1,
              ![b].rows = [r \in 1..Len(@) |-> Append(@[r], EmptyCell)]]

\* the column loop with `<` for `<=`: one column short
RECURSIVE EnsureColumnsShort(_, _, _)
EnsureColumnsShort(d, b, idx) ==
    IF d[b].cols < idx THEN EnsureColumnsShort(add_column(d, b), b, idx) ELSE d

\* while len(self.current_table.columns) <= self.current_cell_index: add_column
RECURSIVE EnsureColumns(_, _, _)
EnsureColumns(d, b, idx) ==
    IF d[b].cols <= idx THEN EnsureColumns(add_column(d, b), b, idx) ELSE d

\* Paragraph.add_run on the paragraph a reference names:
\* <<b>> is body paragraph b, <<b, r, c>> the paragraph of a table cell
add_run(d, ref, run) ==
    IF Len(ref) = 1
    THEN [d EXCEPT ![ref[1]].runs = Append(@, run)]
    ELSE [d EXCEPT ![ref[1]].rows[ref[2]][ref[3]].runs = Append(@, run)]

\* p_pr.append(...) three times on the paragraph a reference names
append_pPr(d, ref, elems) ==
    IF Len(ref) = 1
    THEN [d EXCEPT ![ref[1]].pPr = @ \o elems]
    ELSE [d EXCEPT ![ref[1]].rows[ref[2]][ref[3]].pPr = @ \o elems]

---------------------------------------------------------------------------
(* HTMLToDocxParser: its state as one record, and its methods as           *)
(* operators from state to state.                                          *)

\* self.current_cell_index before the first <tr> in a table creates it
\* (the td/th handlers read it with getattr(..., 0) / hasattr)
Unset == -1

\* the value of an attribute written without one (<div class>): Python's None
NoValue == <<"None">>

\* the class marker of a highlighted-code container
Marker == <<"c", "o", "d", "e", "h", "i", "l", "i", "t", "e">>

HeadingTags == <<"h1", "h2", "h3", "h4", "h5", "h6">>

IsHeadingTag(tag) == \E n \in 1..Len(HeadingTags) : HeadingTags[n] = tag

\* int(tag[1])
HeadingLevelOf(tag) == CHOOSE n \in 1..Len(HeadingTags) : HeadingTags[n] = tag

\* the parser's state (and the document it writes) as a record
Self ==
    [doc |-> doc, current_paragraph |-> current_paragraph, in_code |-> in_code,
     in_heading |-> in_heading, heading_level |-> heading_level,
     list_level |-> list_level, text_buffer |-> text_buffer,
     current_table |-> current_table, current_row |-> current_row,
     current_cell |-> current_cell, in_table_header |-> in_table_header,
     in_code_block |-> in_code_block,
     current_cell_index |-> current_cell_index, fault |-> FALSE]

\* the parser's attributes, the document included
ParserVars ==
    <<doc, current_paragraph, in_code, in_heading, heading_level, list_level,
      text_buffer, current_table, current_row, current_cell, in_table_header,
      in_code_block, current_cell_index>>

\* HTMLToDocxParser.__init__ on an empty document
InitialParser ==
    [doc |-> <<>>, current_paragraph |-> None, in_code |-> FALSE,
     in_heading |-> FALSE, heading_level |-> 1, list_level |-> 0,
     text_buffer |-> <<>>, current_table |-> None, current_row |-> None,
     current_cell |-> None, in_table_header |-> FALSE,
     in_code_block |-> FALSE, current_cell_index |-> Unset, fault |-> FALSE]

\* add_paragraph called without its style argument
open_paragraph_unstyled(s, style) ==
    [s EXCEPT !.doc = Append(@, NewParagraph("Normal")),
              !.current_paragraph = <<Len(s.doc) + 1>>]

\* self.current_paragraph = self.doc.add_paragraph(style)
open_paragraph(s, style) ==
    [s EXCEPT !.doc = Append(@, NewParagraph(style)),
              !.current_paragraph = <<Len(s.doc) + 1>>]

\* the run flush_text adds for the current mode flags, with the paragraph
\* properties the block-code branch appends
styled_run(s, p) ==
    IF s.in_code
    THEN IF s.in_code_block
         THEN [p EXCEPT !.doc = append_pPr(
                                   add_run(@, p.current_paragraph,
                                           BlockCodeRun(s.text_buffer)),
                                   p.current_paragraph, BlockCodePPr)]
         ELSE [p EXCEPT !.doc = add_run(@, p.current_paragraph,
                                        InlineCodeRun(s.text_buffer))]
    ELSE [p EXCEPT !.doc = add_run(@, p.current_paragraph,
                                   PlainRun(s.text_buffer))]

\* flush_text without `if not self.current_paragraph`: always a new paragraph
flush_text_new_paragraph(s) ==
    IF strip(s.text_buffer) # <<>>
    THEN [styled_run(s, open_paragraph(s, "Normal")) EXCEPT !.text_buffer = <<>>]
    ELSE [s EXCEPT !.text_buffer = <<>>]

\* flush_text without the `if self.text_buffer.strip()` test
flush_text_unguarded(s) ==
    LET p == IF s.current_paragraph = None
             THEN open_paragraph(s, "Normal")
             ELSE s
    IN  [styled_run(s, p) EXCEPT !.text_buffer = <<>>]

\* flush_text without the final `self.text_buffer = ""`
flush_text_keeps_buffer(s) ==
    IF strip(s.text_buffer) # <<>>
    THEN LET p == IF s.current_paragraph = None
                  THEN open_paragraph(s, "Normal")
                  ELSE s
         IN  styled_run(s, p)
    ELSE s

\* flush_text
flush_text(s) ==
    IF strip(s.text_buffer) # <<>>
    THEN LET p == IF s.current_paragraph = None
                  THEN open_paragraph(s, "Normal")
                  ELSE s
         IN  [styled_run(s, p) EXCEPT !.text_buffer = <<>>]
    ELSE [s EXCEPT !.text_buffer = <<>>]

\* flush_text_as_heading passing the buffer to add_heading without .strip()
flush_text_as_heading_untrimmed(s) ==
    LET d == IF strip(s.text_buffer) # <<>>
             THEN Append(s.doc, NewHeading(s.text_buffer, s.heading_level))
             ELSE s.doc
    IN  [s EXCEPT !.doc = d, !.text_buffer = <<>>, !.current_paragraph = None]

\* flush_text_as_heading without the final `self.current_paragraph = None`
flush_text_as_heading_keeps_block(s) ==
    LET d == IF strip(s.text_buffer) # <<>>
             THEN Append(s.doc, NewHeading(strip(s.text_buffer), s.heading_level))
             ELSE s.doc
    IN  [s EXCEPT !.doc = d, !.text_buffer = <<>>]

\* flush_text_as_heading
flush_text_as_heading(s) ==
    LET d == IF strip(s.text_buffer) # <<>>
             THEN Append(s.doc, NewHeading(strip(s.text_buffer), s.heading_level))
             ELSE s.doc
    IN  [s EXCEPT !.doc = d, !.text_buffer = <<>>, !.current_paragraph = None]

\* the loop over attrs of the div branch: "match" when a class attribute
\* holding the marker is found first, "fault" when `'codehilite' in None`
\* raises TypeError first, "none" when the loop ends
RECURSIVE div_scan(_, _)
div_scan(attrs, i) ==
    IF i > Len(attrs) THEN "none"
    ELSE IF attrs[i].name = "class"
         THEN IF attrs[i].value = NoValue THEN "fault"
              ELSE IF IsSubstring(Marker, attrs[i].value) THEN "match"
              ELSE div_scan(attrs, i + 1)
         ELSE div_scan(attrs, i + 1)

\* the body of the td/th branch of handle_starttag (a row is current)
start_cell_in_row(s) ==
    IF s.current_table = None THEN [s EXCEPT !.fault = TRUE]
    ELSE LET idx == IF s.current_cell_index = Unset THEN 0
                    ELSE s.current_cell_index
             d   == EnsureColumns(s.doc, s.current_table[1], idx)
             rb  == s.current_row[1]
             rr  == s.current_row[2]
         IN  IF idx < Len(d[rb].rows[rr])
             THEN [s EXCEPT !.doc = [d EXCEPT ![rb].rows[rr][idx + 1] = ClearedCell],
                            !.current_cell_index = idx,
                            !.current_cell = <<rb, rr, idx + 1>>,
                            !.current_paragraph = <<rb, rr, idx + 1>>]
             ELSE [s EXCEPT !.doc = d, !.current_cell_index = idx]

\* the td/th branch flushing the buffer when no row is current
start_cell_flushes(s) ==
    IF s.current_row = None THEN flush_text(s) ELSE start_cell_in_row(s)

\* the td/th branch of handle_starttag
start_cell(s) ==
    IF s.current_row = None THEN s ELSE start_cell_in_row(s)

\* the tr branch of handle_starttag
start_row(s) ==
    IF s.current_table # None
    THEN [s EXCEPT !.doc = add_row(@, s.current_table[1]),
                   !.current_row = <<s.current_table[1],
                                     Len(s.doc[s.current_table[1]].rows) + 1>>,
                   !.current_cell_index = 0]
    ELSE s

\* handle_starttag
handle_starttag(s, tag, attrs) ==
    CASE IsHeadingTag(tag) ->
           [flush_text(s) EXCEPT !.in_heading = TRUE,
                                 !.heading_level = HeadingLevelOf(tag)]
      [] tag = "p" -> open_paragraph(flush_text(s), "Normal")
      [] tag = "code" -> [flush_text(s) EXCEPT !.in_code = TRUE]
      [] tag = "div" ->
           LET found == div_scan(attrs, 1)
           IN  IF found = "fault" THEN [s EXCEPT !.fault = TRUE]
               ELSE IF found = "match"
               THEN open_paragraph([flush_text(s) EXCEPT !.in_code_block = TRUE],
                                   "Normal")
               ELSE s
      [] tag = "pre" ->
           IF s.in_code_block THEN [s EXCEPT !.in_code = TRUE]
           ELSE open_paragraph(flush_text(s), "Normal")
      [] tag \in {"ul", "ol"} -> [flush_text(s) EXCEPT !.list_level = @ + 1]
      [] tag = "li" -> open_paragraph(flush_text(s), "List Bullet")
      [] tag = "table" ->
           LET f == flush_text(s)
           IN  [f EXCEPT !.doc = Append(@, NewTable),
                         !.current_table = <<Len(f.doc) + 1>>]
      [] tag = "thead" -> [s EXCEPT !.in_table_header = TRUE]
      [] tag = "tbody" -> [s EXCEPT !.in_table_header = FALSE]
      [] tag = "tr" -> start_row(s)
      [] tag \in {"td", "th"} -> start_cell(s)
      [] tag = "br" -> [s EXCEPT !.text_buffer = Append(@, "\n")]
      [] OTHER -> s

\* the td/th branch without `self.current_cell_index += 1`
end_cell_same_index(s) ==
    [flush_text(s) EXCEPT !.current_cell = None, !.current_paragraph = None]

\* the td/th branch of handle_endtag
end_cell(s) ==
    LET f == flush_text(s)
    IN  [f EXCEPT !.current_cell_index = IF @ = Unset THEN Unset ELSE @ + 1,
                  !.current_cell = None,
                  !.current_paragraph = None]

\* the div branch of handle_endtag
end_div(s) ==
    IF s.in_code_block
    THEN [s EXCEPT !.in_code_block = FALSE, !.current_paragraph = None]
    ELSE s

\* the table branch without `self.current_row = None`
end_table_keeps_row(s) ==
    [s EXCEPT !.current_table = None, !.current_cell = None]

\* the table branch of handle_endtag
end_table(s) ==
    [s EXCEPT !.current_table = None, !.current_row = None,
              !.current_cell = None]

\* handle_endtag
handle_endtag(s, tag) ==
    CASE IsHeadingTag(tag) -> [flush_text_as_heading(s) EXCEPT !.in_heading = FALSE]
      [] tag = "p" -> flush_text(s)
      [] tag = "code" -> [flush_text(s) EXCEPT !.in_code = FALSE]
      [] tag = "pre" ->
           IF s.in_code_block THEN [flush_text(s) EXCEPT !.in_code = FALSE]
           ELSE flush_text(s)
      [] tag = "div" -> end_div(s)
      [] tag \in {"ul", "ol"} -> [s EXCEPT !.list_level = @ - 1]
      [] tag = "li" -> flush_text(s)
      [] tag = "table" -> end_table(s)
      [] tag = "tr" -> [s EXCEPT !.current_row = None]
      [] tag \in {"td", "th"} -> end_cell(s)
      [] OTHER -> s

\* handle_data followed by a flush_text call
handle_data_flushes(s, data) ==
    flush_text([s EXCEPT !.text_buffer = @ \o data])

\* handle_data
handle_data(s, data) == [s EXCEPT !.text_buffer = @ \o data]

---------------------------------------------------------------------------
(* html_to_docx: parser = HTMLToDocxParser(doc); parser.feed(html);        *)
(* parser.flush_text().  HTMLParser.feed delivers the events in document   *)
(* order; an exception raised by a handler leaves html_to_docx.            *)

StartEv(tag, attrs) == [kind |-> "start", tag |-> tag, attrs |-> attrs, text |-> <<>>]
EndEv(tag)          == [kind |-> "end", tag |-> tag, attrs |-> <<>>, text |-> <<>>]
DataEv(t)           == [kind |-> "data", tag |-> "", attrs |-> <<>>, text |-> t]

IsStartCell(ev) == ev.kind = "start" /\ ev.tag \in {"td", "th"}

\* the handler HTMLParser calls for an event
dispatch(s, ev) ==
    CASE ev.kind = "start" -> handle_starttag(s, ev.tag, ev.attrs)
      [] ev.kind = "end"   -> handle_endtag(s, ev.tag)
      [] ev.kind = "data"  -> handle_data(s, ev.text)

\* the parser's attributes after a handler returned state s
Load(s) ==
    /\ doc' = s.doc
    /\ current_paragraph' = s.current_paragraph
    /\ in_code' = s.in_code
    /\ in_heading' = s.in_heading
    /\ heading_level' = s.heading_level
    /\ list_level' = s.list_level
    /\ text_buffer' = s.text_buffer
    /\ current_table' = s.current_table
    /\ current_row' = s.current_row
    /\ current_cell' = s.current_cell
    /\ in_table_header' = s.in_table_header
    /\ in_code_block' = s.in_code_block
    /\ current_cell_index' = s.current_cell_index

\* no exception has left html_to_docx
NoFault == "none"

\* the second call has not been made
NoCall == [pc |-> "idle", parser |-> InitialParser, fed |-> <<>>, fuel |-> 0]

\* what is at output_path: nothing yet
NoFile == [exists |-> FALSE, image |-> FALSE, w |-> 0, h |-> 0]

\* the base converter: no online service, no generation under way
NoOnline ==
    [fallback_local |-> FALSE, local_mmdc_cmd |-> FALSE, cairosvg |-> FALSE,
     at |-> "idle", calls |-> <<>>, file |-> NoFile]

\* what belongs to the converter and to other calls, not to this parser
\* what belongs to the html_to_docx call the parser variables describe
CallVars == <<ParserVars, pc, fuel, window, fed, raised>>

MermaidVars ==
    <<markdown_content, processed_content, diagram_images, pending, temp_files,
      disk, warnings, cursor, cleanups, cpc>>

ConverterVars == <<other, online, MermaidVars>>

\* MarkdownToDocxConverter.__init__, no text handed to it
MermaidIdle ==
    /\ markdown_content = <<>> /\ processed_content = <<>>
    /\ diagram_images = <<>> /\ pending = <<>>
    /\ temp_files = <<>> /\ disk = {} /\ warnings = <<>>
    /\ cursor = 0 /\ cleanups = 0 /\ cpc = "idle"

ConverterIdle == other = NoCall /\ online = NoOnline /\ MermaidIdle

\* feed() goes on although an exception was raised
FeedingDespiteFault == pc \in {"feeding", "fault"} /\ fuel > 0

\* `fed` keeps the last `window` events
Remember(ev) ==
    LET all == Append(fed, ev)
    IN  IF Len(all) > window THEN Tail(all) ELSE all

\* feed() is running and the tokenizer has an event to deliver
Feeding == pc = "feeding" /\ fuel > 0

\* one event through feed(): the handler runs; a raised exception ends the call
Deliver(ev) ==
    /\ LET s == dispatch(Self, ev)
       IN  /\ Load(s)
           /\ pc' = IF s.fault THEN "fault" ELSE "feeding"
           /\ raised' = IF s.fault THEN "TypeError" ELSE raised
    /\ fuel' = fuel - 1
    /\ fed' = Remember(ev)
    /\ UNCHANGED window
    /\ UNCHANGED ConverterVars

(* The events the tokenizer is made to deliver.                            *)

Levels == 1..MaxLevel

DataTexts == {<<"a">>, <<" ">>, <<" ", "b">>}

ClassAttr(v) == [name |-> "class", value |-> v]

DivAttrLists ==
    {<<>>,
     <<ClassAttr(Marker)>>,
     <<ClassAttr(<<"x">>)>>,
     <<[name |-> "id", value |-> Marker], ClassAttr(<<"x", " ">> \o Marker)>>,
     <<ClassAttr(NoValue)>>}

\* tags outside the vocabulary
UnknownTags == {"em"}

\* end tags no branch of handle_endtag names
EndOtherTags == {"span", "br", "thead", "tbody"} \cup UnknownTags

StartHeading == \E n \in Levels : Feeding /\ Deliver(StartEv(HeadingTags[n], <<>>))
StartP       == Feeding /\ Deliver(StartEv("p", <<>>))
StartCode    == Feeding /\ Deliver(StartEv("code", <<>>))
StartDiv     == \E attrs \in DivAttrLists : Feeding /\ Deliver(StartEv("div", attrs))
StartPre     == Feeding /\ Deliver(StartEv("pre", <<>>))
StartList    == \E tag \in {"ul", "ol"} : Feeding /\ Deliver(StartEv(tag, <<>>))
StartLi      == Feeding /\ Deliver(StartEv("li", <<>>))
StartTable   == Feeding /\ Deliver(StartEv("table", <<>>))
StartThead   == Feeding /\ Deliver(StartEv("thead", <<>>))
StartTbody   == Feeding /\ Deliver(StartEv("tbody", <<>>))
StartTr      == Feeding /\ Deliver(StartEv("tr", <<>>))
StartCell    == \E tag \in {"td", "th"} : Feeding /\ Deliver(StartEv(tag, <<>>))
StartBr      == Feeding /\ Deliver(StartEv("br", <<>>))
StartSpan    == Feeding /\ Deliver(StartEv("span", <<>>))
StartOther   == \E tag \in UnknownTags : Feeding /\ Deliver(StartEv(tag, <<>>))

EndHeading   == \E n \in Levels : Feeding /\ Deliver(EndEv(HeadingTags[n]))
EndP         == Feeding /\ Deliver(EndEv("p"))
EndCode      == Feeding /\ Deliver(EndEv("code"))
EndPre       == Feeding /\ Deliver(EndEv("pre"))
EndDiv       == Feeding /\ Deliver(EndEv("div"))
EndList      == \E tag \in {"ul", "ol"} : Feeding /\ Deliver(EndEv(tag))
EndLi        == Feeding /\ Deliver(EndEv("li"))
EndTable     == Feeding /\ Deliver(EndEv("table"))
EndTr        == Feeding /\ Deliver(EndEv("tr"))
EndCell      == \E tag \in {"td", "th"} : Feeding /\ Deliver(EndEv(tag))
EndOther     == \E tag \in EndOtherTags : Feeding /\ Deliver(EndEv(tag))

HandleData   == \E t \in DataTexts : Feeding /\ Deliver(DataEv(t))

\* html_to_docx returning after feed() without the final flush_text call
FinishWithoutFlush ==
    /\ pc = "feeding"
    /\ pc' = "done"
    /\ UNCHANGED <<ParserVars, fuel, window, fed, raised>>
    /\ UNCHANGED ConverterVars

\* feed() returned: the final parser.flush_text()
Finish ==
    /\ pc = "feeding"
    /\ Load(flush_text(Self))
    /\ pc' = "done"
    /\ UNCHANGED <<fuel, window, fed, raised>>
    /\ UNCHANGED ConverterVars

\* the parser after feed() delivered the events of `prefix` to a new parser
RECURSIVE ParserAfter(_)
ParserAfter(prefix) ==
    IF prefix = <<>> THEN InitialParser
    ELSE dispatch(ParserAfter(SubSeq(prefix, 1, Len(prefix) - 1)),
                  prefix[Len(prefix)])

\* feed() has delivered `prefix` to a new parser, n events are to come, and
\* the last w events are remembered
CallAfter(prefix, n, w) ==
    /\ doc = ParserAfter(prefix).doc
    /\ current_paragraph = ParserAfter(prefix).current_paragraph
    /\ in_code = ParserAfter(prefix).in_code
    /\ in_heading = ParserAfter(prefix).in_heading
    /\ heading_level = ParserAfter(prefix).heading_level
    /\ list_level = ParserAfter(prefix).list_level
    /\ text_buffer = ParserAfter(prefix).text_buffer
    /\ current_table = ParserAfter(prefix).current_table
    /\ current_row = ParserAfter(prefix).current_row
    /\ current_cell = ParserAfter(prefix).current_cell
    /\ in_table_header = ParserAfter(prefix).in_table_header
    /\ in_code_block = ParserAfter(prefix).in_code_block
    /\ current_cell_index = ParserAfter(prefix).current_cell_index
    /\ pc = "feeding"
    /\ raised = NoFault
    /\ fuel = n
    /\ window = w
    /\ fed = IF Len(prefix) > w
             THEN SubSeq(prefix, Len(prefix) - w + 1, Len(prefix))
             ELSE prefix

\* the same, in a converter that has done nothing else
InitAfter(prefix, n, w) == CallAfter(prefix, n, w) /\ ConverterIdle

\* the state after HTMLToDocxParser(doc), with n events to come and a
\* memory of w events
InitWith(n, w) == InitAfter(<<>>, n, w)

(* Spec: every sequence of at most MaxEvents events over the whole         *)
(* alphabet.                                                               *)

Init == InitWith(MaxEvents, 1)

Next ==
    \/ StartHeading \/ StartP \/ StartCode \/ StartDiv \/ StartPre
    \/ StartList \/ StartLi \/ StartTable \/ StartThead \/ StartTbody
    \/ StartTr \/ StartCell \/ StartBr \/ StartSpan \/ StartOther
    \/ EndHeading \/ EndP \/ EndCode \/ EndPre \/ EndDiv \/ EndList
    \/ EndLi \/ EndTable \/ EndTr \/ EndCell \/ EndOther
    \/ HandleData
    \/ Finish

Spec == Init /\ [][Next]_vars

(* SpecTable: every sequence of at most MaxTableEvents events over the     *)
(* table tags, character data, inline code and paragraph starts, in any    *)
(* order (stray rows and cells, unclosed cells, nested tables included).   *)

InitTable == InitWith(MaxTableEvents, 1)

NextTable ==
    \/ StartTable \/ StartTr \/ StartCell \/ EndCell \/ EndTr \/ EndTable
    \/ StartCode \/ EndCode \/ StartP
    \/ HandleData
    \/ Finish

SpecTable == InitTable /\ [][NextTable]_vars

(* SpecHeading: the fragments <hN>T</hN>, N in 1..6, T delivered as zero   *)
(* or more Data events; every event delivered is remembered.               *)

FragmentStarts == fed = <<>>

HeadingFragmentStart ==
    \E n \in 1..Len(HeadingTags) :
        FragmentStarts /\ Feeding /\ Deliver(StartEv(HeadingTags[n], <<>>))

HeadingFragmentData ==
    \E t \in DataTexts :
        /\ fed # <<>> /\ fed[Len(fed)].kind # "end"
        /\ fuel > 1
        /\ Feeding /\ Deliver(DataEv(t))

HeadingFragmentEnd ==
    /\ fed # <<>> /\ fed[Len(fed)].kind # "end"
    /\ Feeding /\ Deliver(EndEv(fed[1].tag))

HeadingFragmentFinish ==
    /\ fed # <<>> /\ fed[Len(fed)].kind = "end"
    /\ Finish

InitHeading == InitWith(MaxHeadingEvents, MaxHeadingEvents)

NextHeading ==
    \/ HeadingFragmentStart \/ HeadingFragmentData \/ HeadingFragmentEnd
    \/ HeadingFragmentFinish

SpecHeading == InitHeading /\ [][NextHeading]_vars

(* SpecTableShape: the fragments <table> (<tr> (<td|th> [Data] </td|th>)*  *)
(* </tr>)* </table>: every row a sequence of opened-and-closed cells;      *)
(* every event delivered is remembered.                                    *)

\* the event delivered last is one of these (kind, tag) pairs
After(pairs) == fed # <<>> /\ <<fed[Len(fed)].kind, fed[Len(fed)].tag>> \in pairs

CellTags == {"td", "th"}

ShapeTable == FragmentStarts /\ StartTable

ShapeRow == After({<<"start", "table">>, <<"end", "tr">>}) /\ StartTr

ShapeCell ==
    /\ After({<<"start", "tr">>} \cup {<<"end", t>> : t \in CellTags})
    /\ StartCell

ShapeData == After({<<"start", t>> : t \in CellTags}) /\ HandleData

ShapeEndCell ==
    /\ fed # <<>>
    /\ \/ /\ fed[Len(fed)].kind = "start"
          /\ fed[Len(fed)].tag \in CellTags
          /\ Feeding /\ Deliver(EndEv(fed[Len(fed)].tag))
       \/ /\ fed[Len(fed)].kind = "data"
          /\ Feeding /\ Deliver(EndEv(fed[Len(fed) - 1].tag))

ShapeEndRow ==
    /\ After({<<"start", "tr">>} \cup {<<"end", t>> : t \in CellTags})
    /\ EndTr

ShapeEndTable == After({<<"start", "table">>, <<"end", "tr">>}) /\ EndTable

ShapeFinish == After({<<"end", "table">>}) /\ Finish

InitTableShape == InitWith(MaxShapeEvents, MaxShapeEvents)

NextTableShape ==
    \/ ShapeTable \/ ShapeRow \/ ShapeCell \/ ShapeData \/ ShapeEndCell
    \/ ShapeEndRow \/ ShapeEndTable \/ ShapeFinish

SpecTableShape == InitTableShape /\ [][NextTableShape]_vars

(* SpecCell: <table><tr><td> has been delivered, the cell is open; then    *)
(* every sequence of at most MaxCellEvents events over the whole alphabet. *)

OpenCellPrefix ==
    <<StartEv("table", <<>>), StartEv("tr", <<>>), StartEv("td", <<>>)>>

InitCell == InitAfter(OpenCellPrefix, MaxCellEvents, 1)

SpecCell == InitCell /\ [][Next]_vars

(* SpecCode: well-nested fragments over inline code, the highlighted-code  *)
(* container <div class="codehilite"> with its <pre>, span and character   *)
(* data; every event delivered is remembered.                              *)

\* the tags open after the events h, outermost first
RECURSIVE OpenTags(_)
OpenTags(h) ==
    IF h = <<>> THEN <<>>
    ELSE LET st == OpenTags(SubSeq(h, 1, Len(h) - 1))
             ev == h[Len(h)]
         IN  IF ev.kind = "start" THEN Append(st, ev.tag)
             ELSE IF ev.kind = "end" /\ st # <<>> /\ st[Len(st)] = ev.tag
             THEN SubSeq(st, 1, Len(st) - 1)
             ELSE st

IsOpen(h, tag) == \E i \in 1..Len(OpenTags(h)) : OpenTags(h)[i] = tag

CodeStartContainer ==
    /\ OpenTags(fed) = <<>>
    /\ Feeding /\ Deliver(StartEv("div", <<ClassAttr(Marker)>>))

CodeStartPre == OpenTags(fed) = <<"div">> /\ StartPre

CodeStartCode ==
    /\ OpenTags(fed) \in {<<>>, <<"div", "pre">>}
    /\ StartCode

CodeStartSpan == IsOpen(fed, "pre") /\ ~IsOpen(fed, "span") /\ StartSpan

CodeEndTag ==
    /\ OpenTags(fed) # <<>>
    /\ Feeding /\ Deliver(EndEv(OpenTags(fed)[Len(OpenTags(fed))]))

CodeData == HandleData

CodeFinish == OpenTags(fed) = <<>> /\ Finish

InitCode == InitWith(MaxCodeEvents, MaxCodeEvents)

NextCode ==
    \/ CodeStartContainer \/ CodeStartPre \/ CodeStartCode \/ CodeStartSpan
    \/ CodeEndTag \/ CodeData \/ CodeFinish

SpecCode == InitCode /\ [][NextCode]_vars

(* SpecDiv: fragments whose div elements are well nested, a container     *)
(* <div class="codehilite"> with plain div elements inside and around it,  *)
(* paragraphs and character data; every event delivered is remembered.     *)

PlainDivAttrLists == {<<>>, <<ClassAttr(<<"x">>)>>}

\* the div elements open after the events h, outermost first: "container"
\* for one whose class holds the marker, "plain" for any other
RECURSIVE OpenDivs(_)
OpenDivs(h) ==
    IF h = <<>> THEN <<>>
    ELSE LET st == OpenDivs(SubSeq(h, 1, Len(h) - 1))
             ev == h[Len(h)]
         IN  IF ev.kind = "start" /\ ev.tag = "div"
             THEN Append(st, IF div_scan(ev.attrs, 1) = "match"
                             THEN "container" ELSE "plain")
             ELSE IF ev.kind = "end" /\ ev.tag = "div" /\ st # <<>>
             THEN SubSeq(st, 1, Len(st) - 1)
             ELSE st

InContainer(h) == \E i \in 1..Len(OpenDivs(h)) : OpenDivs(h)[i] = "container"

DivStartContainer ==
    /\ ~InContainer(fed)
    /\ Feeding /\ Deliver(StartEv("div", <<ClassAttr(Marker)>>))

DivStartPlain ==
    \E attrs \in PlainDivAttrLists : Feeding /\ Deliver(StartEv("div", attrs))

DivEnd == OpenDivs(fed) # <<>> /\ EndDiv

DivFinish == OpenDivs(fed) = <<>> /\ Finish

InitDiv == InitWith(MaxDivEvents, MaxDivEvents)

NextDiv ==
    \/ DivStartContainer \/ DivStartPlain \/ DivEnd
    \/ StartP \/ EndP \/ HandleData \/ DivFinish

SpecDiv == InitDiv /\ [][NextDiv]_vars

(* SpecPair: two html_to_docx calls of one converter, each with its own    *)
(* document, their events interleaved in every order (one call after the   *)
(* other included).  The parser is a local of html_to_docx: the second     *)
(* call builds its own from the class, nothing of the first is passed.     *)

PairEvents ==
    {StartEv("code", <<>>), StartEv("p", <<>>), DataEv(<<"a">>),
     StartEv("table", <<>>), StartEv("tr", <<>>), StartEv("td", <<>>)}

\* a parser built as the first one is left with its attributes
parser_kept(prev, d) == [prev EXCEPT !.doc = d]

\* parser = HTMLToDocxParser(doc), made while the parser `prev` of another
\* call exists
new_parser(prev, d) == [InitialParser EXCEPT !.doc = d]

PairFirstEvent == \E ev \in PairEvents : Feeding /\ Deliver(ev)

PairOtherBegin ==
    /\ other.pc = "idle"
    /\ other' = [pc |-> "feeding", parser |-> new_parser(Self, <<>>),
                 fed |-> <<>>, fuel |-> MaxPairEvents]
    /\ UNCHANGED <<CallVars, online, MermaidVars>>

PairOtherEvent ==
    \E ev \in PairEvents :
        /\ other.pc = "feeding" /\ other.fuel > 0
        /\ other' = [other EXCEPT !.parser = dispatch(@, ev),
                                  !.fed = Append(@, ev),
                                  !.fuel = @ - 1]
        /\ UNCHANGED <<CallVars, online, MermaidVars>>

PairOtherFinish ==
    /\ other.pc = "feeding"
    /\ other' = [other EXCEPT !.parser = flush_text(@), !.pc = "done"]
    /\ UNCHANGED <<CallVars, online, MermaidVars>>

InitPair == InitWith(MaxPairEvents, MaxPairEvents)

NextPair ==
    \/ PairFirstEvent \/ Finish
    \/ PairOtherBegin \/ PairOtherEvent \/ PairOtherFinish

SpecPair == InitPair /\ [][NextPair]_vars

(* SpecBuilder: a call of html_to_docx during which a python-docx call     *)
(* (add_paragraph, add_run, add_heading, add_table, add_row, add_column,   *)
(* cell access) may raise.  Neither the handlers nor html_to_docx hold a   *)
(* try statement: the exception leaves the handler, feed() and             *)
(* html_to_docx.                                                           *)

BuilderFaults == {"MemoryError", "ValueError"}

BuilderEvents ==
    {StartEv(t, <<>>) : t \in {"h1", "p", "li", "code", "table", "tr", "td"}}
        \cup {EndEv(t) : t \in {"h1", "p", "code", "td"}}
        \cup {DataEv(<<"a">>)}

\* the handler of ev reaches a python-docx call
calls_builder(s, ev) ==
    \/ dispatch(s, ev).doc # s.doc
    \/ IsStartCell(ev) /\ s.current_row # None

\* what a handler leaves when one of its python-docx calls raises: nothing
\* done yet (its first call raised), or its flush_text done and a later
\* call raised
PartialStates(s, ev) ==
    {s} \cup {t \in {flush_text(s)} : t.doc # s.doc /\ dispatch(s, ev).doc # t.doc}

BuilderDeliver == \E ev \in BuilderEvents : Feeding /\ Deliver(ev)

BuilderFails ==
    \E ev \in BuilderEvents, e \in BuilderFaults :
        \E t \in PartialStates(Self, ev) :
            /\ Feeding
            /\ calls_builder(Self, ev)
            /\ Load(t)
            /\ pc' = "fault"
            /\ raised' = e
            /\ fuel' = fuel - 1
            /\ fed' = Remember(ev)
            /\ UNCHANGED window
            /\ UNCHANGED ConverterVars

\* the final parser.flush_text() raises in its first python-docx call
BuilderFailsAtFinish ==
    \E e \in BuilderFaults :
        /\ pc = "feeding"
        /\ flush_text(Self).doc # doc
        /\ pc' = "fault"
        /\ raised' = e
        /\ UNCHANGED <<ParserVars, fuel, window, fed>>
        /\ UNCHANGED ConverterVars

InitBuilder == InitWith(MaxBuilderEvents, 1)

NextBuilder == BuilderDeliver \/ BuilderFails \/ BuilderFailsAtFinish \/ Finish

SpecBuilder == InitBuilder /\ [][NextBuilder]_vars

(* SpecMermaid: process_mermaid_diagrams on a Markdown text, then          *)
(* cleanup_temp_files.  The text is a sequence of units: "F" stands for    *)
(* the opening fence "```mermaid\n", "E" for the closing "\n```", "x" for  *)
(* any other character; start/end offsets count units.  A placeholder      *)
(* "[MERMAID_DIAGRAM_i]" is the three units "[", "MERMAID_DIAGRAM_i",      *)
(* "]", so that a replacement may lengthen or shorten the text.            *)

Units == {"F", "E", "x"}

RECURSIVE Texts(_)
Texts(n) ==
    IF n = 0 THEN {<<>>}
    ELSE Texts(n - 1) \cup {Append(t, u) : t \in {q \in Texts(n - 1) : Len(q) = n - 1}, u \in Units}

\* f"[MERMAID_DIAGRAM_{index}]"
Placeholder(i) == <<"[", "MERMAID_DIAGRAM_" \o ToString(i), "]">>

\* position of the first unit u of c at or after from, 0 when there is none
FirstAt(c, u, from) ==
    IF \E k \in from..Len(c) : c[k] = u
    THEN CHOOSE k \in from..Len(c) : c[k] = u /\ \A j \in from..(k - 1) : c[j] # u
    ELSE 0

\* re.finditer of r'```mermaid\n(.*?)\n```' with re.DOTALL from position
\* pos on, the matches numbered from i: start and end are the 0-based
\* offsets match.start() and match.end()
RECURSIVE finditer(_, _, _)
finditer(c, pos, i) ==
    LET f == FirstAt(c, "F", pos)
        e == IF f = 0 THEN 0 ELSE FirstAt(c, "E", f + 1)
    IN  IF e = 0 THEN <<>>
        ELSE <<[index |-> i, start |-> f - 1, end |-> e,
                full_match |-> SubSeq(c, f, e)]>> \o finditer(c, e + 1, i + 1)

extract_mermaid_diagrams(c) == finditer(c, 1, 0)

\* the loop visiting the diagrams first to last
in_order(q) == q

\* reversed(diagrams)
reversed(q) == [k \in 1..Len(q) |-> q[Len(q) + 1 - k]]

\* processed_content[:start] + placeholder + processed_content[end:]
replace_block(c, d) ==
    SubSeq(c, 1, d.start) \o Placeholder(d.index) \o SubSeq(c, d.end + 1, Len(c))

PngPath(i) == <<"png", i>>
MmdPath(i) == <<"mmd", i>>

\* how generate_mermaid_image may end: the .mmd file could not be made; it
\* was made and mmdc left no image; mmdc failed but left an image; mmdc
\* succeeded and the image exists
Outcomes == {"no_mmd", "no_png", "stray_png", "ok"}

\* generate_mermaid_image ending with `return True` whatever happened
generate_mermaid_image_unchecked(outcome) == TRUE

\* what generate_mermaid_image returns: False from the except clause, False
\* for a non-zero exit code, os.path.exists(output_path) otherwise
generate_mermaid_image(outcome) ==
    CASE outcome = "no_mmd" -> FALSE
      [] outcome = "stray_png" -> FALSE
      [] outcome = "no_png" -> FALSE
      [] outcome = "ok" -> TRUE

MermaidBegin ==
    /\ cpc = "idle"
    /\ cpc' = "processing"
    /\ pending' = reversed(extract_mermaid_diagrams(markdown_content))
    /\ processed_content' = markdown_content
    /\ diagram_images' = <<>>
    /\ UNCHANGED <<markdown_content, temp_files, disk, warnings, cursor, cleanups>>
    /\ UNCHANGED <<CallVars, other, online>>

\* one turn of the loop over the diagrams
MermaidDiagram ==
    \E outcome \in Outcomes :
        /\ cpc = "processing" /\ pending # <<>>
        /\ LET d == Head(pending)
           IN  /\ temp_files' = temp_files \o <<PngPath(d.index)>>
                     \o (IF outcome = "no_mmd" THEN <<>> ELSE <<MmdPath(d.index)>>)
               /\ disk' = disk
                     \cup (IF outcome = "no_mmd" THEN {} ELSE {MmdPath(d.index)})
                     \cup (IF outcome \in {"stray_png", "ok"} THEN {PngPath(d.index)} ELSE {})
               /\ IF generate_mermaid_image(outcome)
                  THEN /\ diagram_images' =
                             <<[path |-> PngPath(d.index), index |-> d.index]>>
                                 \o diagram_images
                       /\ processed_content' = replace_block(processed_content, d)
                  ELSE UNCHANGED <<diagram_images, processed_content>>
        /\ pending' = Tail(pending)
        /\ UNCHANGED <<markdown_content, warnings, cursor, cleanups, cpc>>
        /\ UNCHANGED <<CallVars, other, online>>

MermaidReturn ==
    /\ cpc = "processing" /\ pending = <<>>
    /\ cpc' = "processed"
    /\ UNCHANGED <<markdown_content, processed_content, diagram_images, pending,
                   temp_files, disk, warnings, cursor, cleanups>>
    /\ UNCHANGED <<CallVars, other, online>>

\* cleanup_temp_files leaving the list as it is
not_cleared(files) == files

\* self.temp_files.clear()
cleared(files) == <<>>

\* cleanup_temp_files is called (by convert's finally, by __del__, by hand)
CleanupBegin ==
    /\ cpc \in {"processed", "cleaned"}
    /\ cleanups < MaxCleanups
    /\ cpc' = "cleaning"
    /\ cursor' = 1
    /\ UNCHANGED <<markdown_content, processed_content, diagram_images, pending,
                   temp_files, disk, warnings, cleanups>>
    /\ UNCHANGED <<CallVars, other, online>>

\* one turn of its loop: os.path.exists, os.remove, and the except branch
\* that prints the warning when os.remove raises
CleanupFile ==
    \E removal \in {"removed", "raised"} :
        /\ cpc = "cleaning" /\ cursor <= Len(temp_files)
        /\ IF temp_files[cursor] \notin disk
           THEN UNCHANGED <<disk, warnings>>
           ELSE IF removal = "removed"
           THEN disk' = disk \ {temp_files[cursor]} /\ UNCHANGED warnings
           ELSE warnings' = Append(warnings, temp_files[cursor]) /\ UNCHANGED disk
        /\ cursor' = cursor + 1
        /\ UNCHANGED <<markdown_content, processed_content, diagram_images, pending,
                       temp_files, cleanups, cpc>>
        /\ UNCHANGED <<CallVars, other, online>>

CleanupReturn ==
    /\ cpc = "cleaning" /\ cursor > Len(temp_files)
    /\ temp_files' = cleared(temp_files)
    /\ cpc' = "cleaned"
    /\ cleanups' = cleanups + 1
    /\ cursor' = 0
    /\ UNCHANGED <<markdown_content, processed_content, diagram_images, pending,
                   disk, warnings>>
    /\ UNCHANGED <<CallVars, other, online>>

InitMermaid ==
    /\ CallAfter(<<>>, 0, 1)
    /\ other = NoCall /\ online = NoOnline
    /\ markdown_content \in Texts(MaxContent)
    /\ processed_content = <<>> /\ diagram_images = <<>> /\ pending = <<>>
    /\ temp_files = <<>> /\ disk = {} /\ warnings = <<>>
    /\ cursor = 0 /\ cleanups = 0 /\ cpc = "idle"

NextMermaid ==
    \/ MermaidBegin \/ MermaidDiagram \/ MermaidReturn
    \/ CleanupBegin \/ CleanupFile \/ CleanupReturn

SpecMermaid == InitMermaid /\ [][NextMermaid]_vars

\* the concatenation of a sequence of sequences
RECURSIVE Flatten(_)
Flatten(qq) == IF Len(qq) = 0 THEN <<>> ELSE Head(qq) \o Flatten(Tail(qq))

(* SpecInsert: html_to_docx on a fragment whose text holds placeholders,   *)
(* then insert_mermaid_images, as convert runs them; two diagrams were     *)
(* generated and their images exist.                                       *)

\* run = paragraph.add_run(); run.add_picture(path, ...)
PictureRun(path) ==
    [text |-> <<>>, font |-> "", size |-> 0, color |-> "", shd |-> "",
     picture |-> path]

\* paragraph.text: the text of its runs (of a heading: its text)
paragraph_text(par) ==
    par.text \o Flatten([k \in 1..Len(par.runs) |-> par.runs[k].text])

\* paragraph.clear(), the picture run, the centred alignment
with_picture(par, image) ==
    [par EXCEPT !.text = <<>>,
                !.runs = <<PictureRun(image.path)>>,
                !.pPr = Append(@, "jc=center")]

\* the loop over diagram_images for one paragraph, from the k-th on
RECURSIVE visit_diagrams(_, _, _)
visit_diagrams(par, images, k) ==
    IF k > Len(images) THEN par
    ELSE visit_diagrams(
            IF IsSubstring(Placeholder(images[k].index), paragraph_text(par))
            THEN with_picture(par, images[k])
            ELSE par,
            images, k + 1)

\* insert_mermaid_images: doc.paragraphs are the paragraphs and headings of
\* the body, not those of table cells
insert_mermaid_images(d, images) ==
    [b \in 1..Len(d) |->
        IF d[b].kind = "table" THEN d[b] ELSE visit_diagrams(d[b], images, 1)]

InsertEvents ==
    {StartEv(t, <<>>) : t \in {"p", "table", "tr", "td"}}
        \cup {DataEv(Placeholder(0)), DataEv(Placeholder(1)), DataEv(<<"x">>)}

InsertDeliver == \E ev \in InsertEvents : Feeding /\ Deliver(ev)

InsertImages ==
    /\ pc = "done" /\ cpc = "processed"
    /\ diagram_images # <<>>
    /\ doc' = insert_mermaid_images(doc, diagram_images)
    /\ cpc' = "inserted"
    /\ UNCHANGED <<current_paragraph, in_code, in_heading, heading_level,
                   list_level, text_buffer, current_table, current_row,
                   current_cell, in_table_header, in_code_block,
                   current_cell_index, pc, fuel, window, fed, raised, other, online>>
    /\ UNCHANGED <<markdown_content, processed_content, diagram_images, pending,
                   temp_files, disk, warnings, cursor, cleanups>>

\* process_mermaid_diagrams has returned for a text of two blocks, both
\* generated, and html_to_docx starts
InitInsert ==
    /\ CallAfter(<<>>, MaxInsertEvents, 1)
    /\ other = NoCall /\ online = NoOnline
    /\ markdown_content = <<"F", "E", "F", "E">>
    /\ processed_content = Placeholder(0) \o Placeholder(1)
    /\ diagram_images = <<[path |-> PngPath(0), index |-> 0],
                          [path |-> PngPath(1), index |-> 1]>>
    /\ pending = <<>>
    /\ temp_files = <<PngPath(1), MmdPath(1), PngPath(0), MmdPath(0)>>
    /\ disk = {PngPath(1), MmdPath(1), PngPath(0), MmdPath(0)}
    /\ warnings = <<>> /\ cursor = 0 /\ cleanups = 0 /\ cpc = "processed"

NextInsert == InsertDeliver \/ Finish \/ InsertImages

SpecInsert == InitInsert /\ [][NextInsert]_vars

(* SpecConvert: one convert call from its first statement to its return.   *)
(* cpc follows the statements: "reading", "idle" (the text is read),       *)
(* "processing", "processed" (the translation runs here, pc telling where  *)
(* it stands), "inserted", "saved", or "failed" once the except clause has *)
(* caught an exception (kept in raised); then the finally clause,          *)
(* "cleaning" and "cleaned"; then "True" or "False", the value returned.   *)

ConvertContents ==
    {<<"x">>, <<"F", "x", "E">>, <<"F", "E", "x", "F", "E">>}

ConvertEvents ==
    {StartEv("p", <<>>), DataEv(Placeholder(0)), DataEv(<<"x">>),
     StartEv("div", <<ClassAttr(NoValue)>>)}

OutputPath == <<"docx", 0>>

\* the except clause: the exception is printed, False will be returned
Caught(e) == cpc' = "failed" /\ raised' = e

\* open(input_file) and f.read(), which may raise
ConvertRead ==
    /\ cpc = "reading"
    /\ \/ \E c \in ConvertContents :
             markdown_content' = c /\ cpc' = "idle" /\ UNCHANGED raised
       \/ Caught("OSError") /\ UNCHANGED markdown_content
    /\ UNCHANGED <<processed_content, diagram_images, pending, temp_files,
                   disk, warnings, cursor, cleanups, other, online>>
    /\ UNCHANGED <<ParserVars, pc, fuel, window, fed>>

\* a turn of the loop of the online converter's process_mermaid_diagrams in
\* which generate_mermaid_image raises: the path is tracked, the exception
\* leaves the loop and the call
ConvertDiagramRaises ==
    /\ cpc = "processing" /\ pending # <<>>
    /\ temp_files' = Append(temp_files, PngPath(Head(pending).index))
    /\ Caught("OnlineMermaidError")
    /\ UNCHANGED <<markdown_content, processed_content, diagram_images, pending,
                   disk, warnings, cursor, cleanups, other, online>>
    /\ UNCHANGED <<ParserVars, pc, fuel, window, fed>>

\* markdown_to_docx_elements: one event of the translation
ConvertDeliver ==
    \E ev \in ConvertEvents : cpc = "processed" /\ Feeding /\ Deliver(ev)

ConvertFinish == cpc = "processed" /\ Finish

\* an exception raised by the translation reaches the except clause
ConvertTranslationRaised ==
    /\ cpc = "processed" /\ pc = "fault"
    /\ cpc' = "failed"
    /\ UNCHANGED <<markdown_content, processed_content, diagram_images, pending,
                   temp_files, disk, warnings, cursor, cleanups, other, online>>
    /\ UNCHANGED CallVars

\* insert_mermaid_images raising (add_picture on a file that is no image)
ConvertInsertRaises ==
    /\ pc = "done" /\ cpc = "processed"
    /\ diagram_images # <<>>
    /\ Caught("UnrecognizedImageError")
    /\ UNCHANGED <<markdown_content, processed_content, diagram_images, pending,
                   temp_files, disk, warnings, cursor, cleanups, other, online>>
    /\ UNCHANGED <<ParserVars, pc, fuel, window, fed>>

\* doc.save(output_file), which may raise, and `return True`
ConvertSave ==
    /\ pc = "done"
    /\ cpc = "inserted" \/ (cpc = "processed" /\ diagram_images = <<>>)
    /\ \/ cpc' = "saved" /\ disk' = disk \cup {OutputPath} /\ UNCHANGED raised
       \/ Caught("OSError") /\ UNCHANGED disk
    /\ UNCHANGED <<markdown_content, processed_content, diagram_images, pending,
                   temp_files, warnings, cursor, cleanups, other, online>>
    /\ UNCHANGED <<ParserVars, pc, fuel, window, fed>>

\* the finally clause running before the translation and the save
ConvertCleanupEarly ==
    /\ cpc \in {"processed", "saved", "failed"}
    /\ cpc' = "cleaning"
    /\ cursor' = 1
    /\ UNCHANGED <<markdown_content, processed_content, diagram_images, pending,
                   temp_files, disk, warnings, cleanups, other, online>>
    /\ UNCHANGED CallVars

\* finally: self.cleanup_temp_files()
ConvertCleanup ==
    /\ cpc \in {"saved", "failed"}
    /\ cpc' = "cleaning"
    /\ cursor' = 1
    /\ UNCHANGED <<markdown_content, processed_content, diagram_images, pending,
                   temp_files, disk, warnings, cleanups, other, online>>
    /\ UNCHANGED CallVars

\* convert returning the exception it caught instead of False
ConvertReraises ==
    /\ cpc = "cleaned"
    /\ cpc' = IF raised = NoFault THEN "True" ELSE "raised"
    /\ UNCHANGED <<markdown_content, processed_content, diagram_images, pending,
                   temp_files, disk, warnings, cursor, cleanups, other, online>>
    /\ UNCHANGED CallVars

\* the return that was pending while the finally clause ran
ConvertReturn ==
    /\ cpc = "cleaned"
    /\ cpc' = IF raised = NoFault THEN "True" ELSE "False"
    /\ UNCHANGED <<markdown_content, processed_content, diagram_images, pending,
                   temp_files, disk, warnings, cursor, cleanups, other, online>>
    /\ UNCHANGED CallVars

InitConvert ==
    /\ CallAfter(<<>>, MaxConvertEvents, 1)
    /\ other = NoCall /\ online = NoOnline
    /\ markdown_content = <<>> /\ processed_content = <<>>
    /\ diagram_images = <<>> /\ pending = <<>>
    /\ temp_files = <<>> /\ disk = {} /\ warnings = <<>>
    /\ cursor = 0 /\ cleanups = 0 /\ cpc = "reading"

NextConvert ==
    \/ ConvertRead
    \/ MermaidBegin \/ MermaidDiagram \/ ConvertDiagramRaises \/ MermaidReturn
    \/ ConvertDeliver \/ ConvertFinish \/ ConvertTranslationRaised
    \/ InsertImages \/ ConvertInsertRaises \/ ConvertSave
    \/ ConvertCleanup \/ CleanupFile \/ CleanupReturn \/ ConvertReturn

SpecConvert == InitConvert /\ [][NextConvert]_vars

\* the interpreter always runs the next statement of the one thread
SpecConvertLive == SpecConvert /\ WF_vars(NextConvert)

(* SpecOnline: process_mermaid_diagrams of OnlineMermaidConverter.  Each   *)
(* turn of its loop calls generate_mermaid_image: _generate_online asks    *)
(* mermaid.ink for the PNG, then for the SVG when cairosvg was imported,   *)
(* and _generate_local_fallback runs mmdc.  online.at is where the turn    *)
(* stands ("idle" between turns), online.calls what it has invoked so far, *)
(* online.file what is at output_path.                                     *)

\* files a response or mmdc may leave at output_path: images of several
\* sizes and bytes PIL cannot open
Responses ==
    {[exists |-> TRUE, image |-> TRUE, w |-> 50, h |-> 100],
     [exists |-> TRUE, image |-> TRUE, w |-> 100, h |-> 50],
     [exists |-> TRUE, image |-> TRUE, w |-> 51, h |-> 51],
     [exists |-> TRUE, image |-> FALSE, w |-> 0, h |-> 0]}

\* _verify_image accepting a side of exactly 50 pixels
verify_image_lax(f) == f.exists /\ f.image /\ f.w >= 50 /\ f.h >= 50

\* _verify_image: Image.open raising gives False
verify_image(f) == f.exists /\ f.image /\ f.w > 50 /\ f.h > 50

\* `if self.fallback_local` without `and self.local_mmdc_cmd`
fallback_enabled(o) == o.fallback_local

\* if self.fallback_local and self.local_mmdc_cmd
fallback_available(o) == o.fallback_local /\ o.local_mmdc_cmd

\* generate_mermaid_image returned True: the image is listed, the block
\* replaced, and the loop goes to the next diagram
TurnListed(o) ==
    /\ diagram_images' =
          <<[path |-> PngPath(Head(pending).index),
             index |-> Head(pending).index]>> \o diagram_images
    /\ processed_content' = replace_block(processed_content, Head(pending))
    /\ pending' = Tail(pending)
    /\ online' = [o EXCEPT !.at = "idle"]
    /\ UNCHANGED <<cpc, raised>>

\* generate_mermaid_image returned False: the warning, the next diagram
TurnSkipped(o) ==
    /\ pending' = Tail(pending)
    /\ online' = [o EXCEPT !.at = "idle"]
    /\ UNCHANGED <<diagram_images, processed_content, cpc, raised>>

\* an exception of the turn caught and the loop going on
TurnSwallows(o) ==
    /\ pending' = Tail(pending)
    /\ online' = [o EXCEPT !.at = "idle"]
    /\ raised' = "OnlineMermaidError"
    /\ UNCHANGED <<diagram_images, processed_content, cpc>>

\* generate_mermaid_image raised OnlineMermaidError: process_mermaid_diagrams
\* logs it and raises it again
TurnRaises(o) ==
    /\ cpc' = "failed"
    /\ raised' = "OnlineMermaidError"
    /\ online' = [o EXCEPT !.at = "raised"]
    /\ UNCHANGED <<diagram_images, processed_content, pending>>

\* _generate_online returned False
OnlineFailed(o) ==
    IF fallback_available(o)
    THEN /\ online' = [o EXCEPT !.at = "local"]
         /\ UNCHANGED <<diagram_images, processed_content, pending, cpc, raised>>
    ELSE TurnRaises(o)

\* the loop of process_mermaid_diagrams reaching a diagram: mktemp, the
\* path tracked, generate_mermaid_image called
OnlineStartTurn ==
    /\ cpc = "processing" /\ pending # <<>> /\ online.at = "idle"
    /\ temp_files' = Append(temp_files, PngPath(Head(pending).index))
    /\ online' = [online EXCEPT !.at = "png", !.calls = <<>>, !.file = NoFile]
    /\ UNCHANGED <<markdown_content, processed_content, diagram_images, pending,
                   disk, warnings, cursor, cleanups, cpc, other>>
    /\ UNCHANGED CallVars

\* one turn of the loop over formats_to_try: the request fails, something
\* else raises, or the response is written to output_path and verified
OnlineRequest ==
    \E outcome \in {"request_failed", "error", "written"} : \E f \in Responses :
        /\ cpc = "processing" /\ online.at \in {"png", "svg"}
        /\ LET o == [online EXCEPT
                        !.calls = Append(@, online.at),
                        !.file = IF outcome = "written" THEN f ELSE @]
           IN  IF outcome = "error" THEN OnlineFailed(o)
               ELSE IF outcome = "written" /\ verify_image(f) THEN TurnListed(o)
               ELSE IF online.at = "png" /\ online.cairosvg
               THEN /\ online' = [o EXCEPT !.at = "svg"]
                    /\ UNCHANGED <<diagram_images, processed_content, pending,
                                   cpc, raised>>
               ELSE OnlineFailed(o)
        /\ disk' = IF outcome = "written"
                   THEN disk \cup {PngPath(Head(pending).index)}
                   ELSE disk
        /\ UNCHANGED <<markdown_content, temp_files, warnings, cursor, cleanups,
                       other>>
        /\ UNCHANGED <<ParserVars, pc, fuel, window, fed>>

\* _generate_local_fallback: the .mmd file cannot be made, mmdc exits with
\* an error, or mmdc ends and what it left is verified
OnlineLocal ==
    \E outcome \in {"error", "exit1", "done"} : \E f \in Responses \cup {NoFile} :
        /\ cpc = "processing" /\ online.at = "local"
        /\ LET i == Head(pending).index
               o == [online EXCEPT
                        !.calls = Append(@, "local"),
                        !.file = IF outcome = "done" /\ f.exists THEN f ELSE @]
           IN  /\ IF outcome = "done" /\ f.exists /\ verify_image(f)
                  THEN TurnListed(o)
                  ELSE TurnSkipped(o)
               /\ temp_files' = IF outcome = "error" THEN temp_files
                                ELSE Append(temp_files, MmdPath(i))
               /\ disk' = disk
                     \cup (IF outcome = "error" THEN {} ELSE {MmdPath(i)})
                     \cup (IF outcome = "done" /\ f.exists THEN {PngPath(i)} ELSE {})
        /\ UNCHANGED <<markdown_content, warnings, cursor, cleanups, other>>
        /\ UNCHANGED <<ParserVars, pc, fuel, window, fed>>

\* OnlineMermaidConverter.__init__: local_mmdc_cmd is looked for only when
\* fallback_local is set
InitOnline ==
    /\ CallAfter(<<>>, 0, 1)
    /\ other = NoCall
    /\ \E fl \in BOOLEAN, found \in BOOLEAN, cs \in BOOLEAN :
          online = [NoOnline EXCEPT !.fallback_local = fl,
                                    !.local_mmdc_cmd = fl /\ found,
                                    !.cairosvg = cs]
    /\ markdown_content \in ConvertContents
    /\ processed_content = <<>> /\ diagram_images = <<>> /\ pending = <<>>
    /\ temp_files = <<>> /\ disk = {} /\ warnings = <<>>
    /\ cursor = 0 /\ cleanups = 0 /\ cpc = "idle"

NextOnline ==
    \/ MermaidBegin \/ OnlineStartTurn \/ OnlineRequest \/ OnlineLocal
    \/ MermaidReturn

SpecOnline == InitOnline /\ [][NextOnline]_vars

(* SpecWeb: two /convert requests of the web application running at the    *)
(* same time, each in convert_markdown with the converter it built.  The   *)
(* converter variables are those of the first request; `other` holds the   *)
(* converter of the second: where it stands, its temp_files, the image     *)
(* paths it listed.  tempfile gives each call a name no other call got.    *)

\* tempfile.mktemp(suffix='.png') in the second request
OtherPng == <<"png", -1>>

\* self.temp_files were a list shared by all converters
SharedTracks(o, path) ==
    other' = o /\ temp_files' = Append(temp_files, path)

\* self.temp_files.append(image_path) in the second request's converter
OtherTracks(o, path) ==
    other' = [o EXCEPT !.temp_files = Append(@, path)] /\ UNCHANGED temp_files

\* converter = MarkdownToDocxConverter() in the second request
WebOtherBuild ==
    /\ other.cpc = "idle"
    /\ other' = [other EXCEPT !.cpc = "processing", !.temp_files = <<>>]
    /\ UNCHANGED <<CallVars, online, MermaidVars>>

\* its process_mermaid_diagrams, one diagram: the path is tracked, the
\* image is generated or not
WebOtherDiagram ==
    \E ok \in BOOLEAN :
        /\ other.cpc = "processing"
        /\ OtherTracks([other EXCEPT
                           !.cpc = "processed",
                           !.images = IF ok THEN {OtherPng} ELSE {}],
                       OtherPng)
        /\ disk' = IF ok THEN disk \cup {OtherPng} ELSE disk
        /\ UNCHANGED <<markdown_content, processed_content, diagram_images,
                       pending, warnings, cursor, cleanups, cpc, online>>
        /\ UNCHANGED CallVars

\* the rest of its convert: the images are inserted and the document saved
\* when they are all there, then cleanup_temp_files removes what it tracked
WebOtherFinish ==
    /\ other.cpc = "processed"
    /\ other' = [other EXCEPT
                    !.cpc = IF other.images \subseteq disk THEN "True" ELSE "False",
                    !.temp_files = <<>>]
    /\ disk' = disk \ {other.temp_files[k] : k \in 1..Len(other.temp_files)}
    /\ UNCHANGED <<markdown_content, processed_content, diagram_images, pending,
                   temp_files, warnings, cursor, cleanups, cpc, online>>
    /\ UNCHANGED CallVars

InitWeb ==
    /\ CallAfter(<<>>, 0, 1)
    /\ other = [cpc |-> "idle", temp_files |-> <<>>, images |-> {}]
    /\ online = NoOnline
    /\ markdown_content \in ConvertContents
    /\ processed_content = <<>> /\ diagram_images = <<>> /\ pending = <<>>
    /\ temp_files = <<>> /\ disk = {} /\ warnings = <<>>
    /\ cursor = 0 /\ cleanups = 0 /\ cpc = "idle"

NextWeb ==
    \/ MermaidBegin \/ MermaidDiagram \/ MermaidReturn
    \/ CleanupBegin \/ CleanupFile \/ CleanupReturn
    \/ WebOtherBuild \/ WebOtherDiagram \/ WebOtherFinish

SpecWeb == InitWeb /\ [][NextWeb]_vars

---------------------------------------------------------------------------
(* Measures of a document, for the properties below.                       *)

RECURSIVE SumSeq(_)
SumSeq(q) == IF Len(q) = 0 THEN 0 ELSE Head(q) + SumSeq(Tail(q))

\* the runs of every paragraph of a block: its own, and those of its cells
CellRuns(b) ==
    Flatten([r \in 1..Len(b.rows) |->
                Flatten([c \in 1..Len(b.rows[r]) |-> b.rows[r][c].runs])])

BlockRuns(b) == b.runs \o CellRuns(b)

\* every run of the document, in document order
DocRuns(d) == Flatten([i \in 1..Len(d) |-> BlockRuns(d[i])])

\* non-whitespace characters held by the document: run texts and heading texts
DocNonWs(d) ==
    SumSeq([i \in 1..Len(d) |-> NonWs(d[i].text)])
      + SumSeq([i \in 1..Len(DocRuns(d)) |-> NonWs(DocRuns(d)[i].text)])

\* the paragraph a reference names: a body paragraph or a cell's paragraph
ParagraphAt(d, ref) ==
    IF Len(ref) = 1 THEN d[ref[1]] ELSE d[ref[1]].rows[ref[2]][ref[3]]

\* the event the step just taken delivered (fed' names it in an action)
LastFed == fed[Len(fed)]

IsStart(ev, tags) == ev.kind = "start" /\ ev.tag \in tags
IsEnd(ev, tags)   == ev.kind = "end" /\ ev.tag \in tags

---------------------------------------------------------------------------
(* C1 (refuted by the code).  No event discards text that was already      *)
(* buffered or already committed: across every step of the translation     *)
(* the non-whitespace characters held by the document and the buffer       *)
(* together never become fewer, so that all of them are in the document    *)
(* when translation returns.  Start cell breaks it: `cell.text = ''`       *)
(* clears a cell that already holds a committed run.                       *)
NoTextDiscarded ==
    [][pc' # "fault" =>
         DocNonWs(doc') + NonWs(text_buffer') >= DocNonWs(doc) + NonWs(text_buffer)]_vars

(* C2 (refuted by the code).  Translation never raises, whatever tags and  *)
(* attribute lists arrive.  <div class> delivers ('class', None) and       *)
(* `'codehilite' in None` raises TypeError.                                *)
NeverFaults == pc # "fault"

(* C4 (refuted by the code).  While a heading is open, no event that may   *)
(* occur inside it (character data, inline code, span, line break) adds a  *)
(* run to the document: heading text reaches the document only through    *)
(* flush_text_as_heading.  Start code flushes the buffered heading text as *)
(* a paragraph run.                                                        *)
HeadingInnerTags == {"code", "span", "br"}

HeadingTextOnlyAsHeading ==
    [][(/\ in_heading
        /\ pc = "feeding" /\ pc' = "feeding"
        /\ \/ fed'[Len(fed')].kind = "data"
           \/ fed'[Len(fed')].tag \in HeadingInnerTags)
       => Len(DocRuns(doc')) = Len(DocRuns(doc))]_vars

(* C9.  flush_text on an empty or whitespace-only buffer creates no        *)
(* paragraph, adds no run, leaves current_paragraph alone and only clears  *)
(* the buffer; and every run of the document holds a non-whitespace        *)
(* character, except the empty run `cell.text = ''` leaves as the first    *)
(* run of a cleared cell (flush_text adds none of those).                  *)
RunsOfFlush(runs, inCell) ==
    \A i \in 1..Len(runs) :
        \/ ~IsBlank(runs[i].text)
        \/ inCell /\ i = 1 /\ runs[i] = PlainRun(<<>>)

FlushOfBlankIsNoOp ==
    /\ IsBlank(text_buffer) =>
          flush_text(Self) = [Self EXCEPT !.text_buffer = <<>>]
    /\ \A b \in 1..Len(doc) :
          /\ RunsOfFlush(doc[b].runs, FALSE)
          /\ \A r \in 1..Len(doc[b].rows) : \A c \in 1..Len(doc[b].rows[r]) :
                RunsOfFlush(doc[b].rows[r][c].runs, TRUE)

\* flush_text is about to run on a whitespace-only buffer with no block
\* open, after a flush of real text has added a run
FlushOfBlankWitness ==
    /\ pc = "feeding"
    /\ text_buffer # <<>> /\ IsBlank(text_buffer)
    /\ current_paragraph = None
    /\ Len(DocRuns(doc)) > 0

(* C10.  In every reachable state a second flush_text right after a first  *)
(* changes nothing: document, current_paragraph and buffer are as the      *)
(* first call left them.                                                   *)
FlushIdempotent == flush_text(flush_text(Self)) = flush_text(Self)

\* a state where the first flush_text commits a run
FlushIdempotentWitness ==
    /\ pc = "feeding"
    /\ ~IsBlank(text_buffer)
    /\ flush_text(Self).doc # doc

(* C3.  Translating <hN>T</hN>, T character data with a non-whitespace     *)
(* character, leaves a document of exactly one block: a heading of level N *)
(* whose text is T stripped; no paragraph and no run exist beside it.      *)
FedText == Flatten([i \in 1..Len(fed) |-> fed[i].text])

HeadingRoundTrip ==
    (pc = "done" /\ ~IsBlank(FedText)) =>
        \E n \in 1..Len(HeadingTags) :
            /\ fed[1] = StartEv(HeadingTags[n], <<>>)
            /\ fed[Len(fed)] = EndEv(HeadingTags[n])
            /\ doc = <<NewHeading(strip(FedText), n)>>

\* <h6> b</h6> and the like are translated: a level other than the initial
\* one, and text that strip() shortens
HeadingRoundTripWitness ==
    /\ pc = "done"
    /\ ~IsBlank(FedText) /\ strip(FedText) # FedText
    /\ Len(doc) = 1 /\ doc[1].kind = "heading" /\ doc[1].level = Len(HeadingTags)

(* C5.  After the End table of a table whose rows are sequences of         *)
(* opened-and-closed cells, the table has one row per Start row event, its *)
(* column count is the largest number of cells of any row, every row       *)
(* spans all columns, the cells past a row's own cells are empty, and      *)
(* nothing was raised.                                                     *)
RowStarts(h) == Cardinality({i \in 1..Len(h) : IsStart(h[i], {"tr"})})

\* Start cell events delivered within the r-th row
CellsInRow(h, r) ==
    Cardinality({i \in 1..Len(h) :
                    /\ IsStart(h[i], CellTags)
                    /\ Cardinality({j \in 1..i : IsStart(h[j], {"tr"})}) = r})

MaxCells(h) ==
    IF RowStarts(h) = 0 THEN 0
    ELSE CHOOSE m \in {CellsInRow(h, r) : r \in 1..RowStarts(h)} :
            \A r \in 1..RowStarts(h) : CellsInRow(h, r) <= m

TableShape ==
    After({<<"end", "table">>}) =>
        /\ pc # "fault"
        /\ Len(doc) = 1 /\ doc[1].kind = "table"
        /\ Len(doc[1].rows) = RowStarts(fed)
        /\ doc[1].cols = MaxCells(fed)
        /\ \A r \in 1..Len(doc[1].rows) :
              /\ Len(doc[1].rows[r]) = doc[1].cols
              /\ \A c \in (CellsInRow(fed, r) + 1)..doc[1].cols :
                    doc[1].rows[r][c] = EmptyCell

\* a finished table of two rows whose second row has fewer cells than the
\* table has columns, with text in a cell
TableShapeWitness ==
    /\ pc = "done"
    /\ After({<<"end", "table">>})
    /\ RowStarts(fed) = 2
    /\ CellsInRow(fed, 2) >= 1
    /\ CellsInRow(fed, 2) < doc[1].cols
    /\ DocNonWs(doc) > 0

(* C6.  A table's column count never decreases; right after a Start cell   *)
(* received while a row is current, the current table has more columns     *)
(* than current_cell_index; right after a Start row received in a table    *)
(* (the Start row that makes a row) current_cell_index is 0; and an End    *)
(* cell received while that row is current adds exactly one to it.         *)
ColumnsOnlyGrow ==
    \A b \in 1..Len(doc) :
        doc[b].kind = "table" =>
            doc'[b].kind = "table" /\ doc'[b].cols >= doc[b].cols

TableIndexing ==
    [][/\ ColumnsOnlyGrow
       /\ fuel' < fuel =>
             /\ (IsStart(fed'[Len(fed')], CellTags) /\ current_row # None) =>
                    doc'[current_table'[1]].cols > current_cell_index'
             /\ (IsStart(fed'[Len(fed')], {"tr"}) /\ current_table # None) =>
                    current_row' # None /\ current_cell_index' = 0
             /\ (IsEnd(fed'[Len(fed')], CellTags) /\ current_row # None) =>
                    current_cell_index' = current_cell_index + 1]_vars

\* the second cell of a row has just been opened and made the table grow
\* to two columns
TableIndexingWitness ==
    /\ After({<<"start", t>> : t \in CellTags})
    /\ current_row # None
    /\ current_cell_index = 1
    /\ doc[current_table[1]].cols = 2

BlockTags == {"p", "li", "pre", "div"} \cup {HeadingTags[n] : n \in 1..Len(HeadingTags)}

IsTableOrSame(i) ==
    IF i <= Len(doc) THEN <<doc'[i].kind, doc'[i].runs>> = <<doc[i].kind, doc[i].runs>>
    ELSE doc'[i].kind = "table"

RunsBefore(b) == IF b <= Len(doc) THEN doc[b].runs ELSE <<>>

PPrBefore(b) == IF b <= Len(doc) THEN doc[b].pPr ELSE <<>>

\* the body paragraphs that gained a run in the step just taken
Gained == {b \in 1..Len(doc') : Len(doc'[b].runs) > Len(RunsBefore(b))}

AddedRun(b) == doc'[b].runs[Len(doc'[b].runs)]

InBareCode(h) == IsOpen(h, "code") /\ ~IsOpen(h, "div")

InContainerPre(h) ==
    Len(OpenTags(h)) >= 2 /\ OpenTags(h)[1] = "div" /\ OpenTags(h)[2] = "pre"

CodeRegimes ==
    [][\A b \in Gained :
          /\ InBareCode(fed) =>
                /\ AddedRun(b) = InlineCodeRun(AddedRun(b).text)
                /\ doc'[b].pPr = PPrBefore(b)
          /\ InContainerPre(fed) =>
                /\ AddedRun(b) = BlockCodeRun(AddedRun(b).text)
                /\ doc'[b].pPr = PPrBefore(b) \o BlockCodePPr
          /\ InlineCodeRun(AddedRun(b).text) # BlockCodeRun(AddedRun(b).text)]_vars

(* C11.  A Start cell (td or th) received while no row is current changes  *)
(* nothing of the parser and nothing of the document and does not raise;   *)
(* and <td>T</td> or <th>T</th> alone, T holding a non-whitespace          *)
(* character, is translated to one plain paragraph of one plain run T.     *)
LoneCell(tag, t) == <<StartEv(tag, <<>>), DataEv(t), EndEv(tag)>>

LoneCellTranslated ==
    \A tag \in CellTags : \A t \in DataTexts :
        ~IsBlank(t) =>
            /\ ~ParserAfter(LoneCell(tag, t)).fault
            /\ flush_text(ParserAfter(LoneCell(tag, t))).doc
                  = <<[NewParagraph("Normal") EXCEPT !.runs = <<PlainRun(t)>>]>>

StrayStartCellIgnored ==
    [][(fuel' < fuel /\ IsStart(fed'[Len(fed')], CellTags) /\ current_row = None)
       => /\ UNCHANGED ParserVars
          /\ pc' = "feeding"
          /\ LoneCellTranslated]_vars

\* a Start cell has just been received with no row current, text waiting in
\* the buffer and a paragraph open
StrayStartCellWitness ==
    /\ After({<<"start", t>> : t \in CellTags})
    /\ current_row = None /\ current_cell = None
    /\ ~IsBlank(text_buffer)
    /\ current_paragraph # None

(* C12 (refuted by the code).  An End cell (td or th) received while no    *)
(* row is current raises nothing and leaves current_paragraph,             *)
(* current_cell_index, the buffer and the document unchanged.  The End     *)
(* cell branch has no such guard: it flushes, adds one to the index and    *)
(* resets current_paragraph.                                               *)
StrayEndCellIgnored ==
    [][(fuel' < fuel /\ IsEnd(fed'[Len(fed')], CellTags) /\ current_row = None)
       => /\ pc' = "feeding"
          /\ UNCHANGED <<current_paragraph, current_cell_index, text_buffer, doc>>]_vars

(* C13 as claimed (refuted): right after every event that enters or       *)
(* leaves a heading, paragraph, preformatted, code container, list         *)
(* container, list item or table, or closes a cell, the buffer is empty.   *)
BlockLevelTags ==
    {HeadingTags[n] : n \in 1..Len(HeadingTags)}
        \cup {"p", "pre", "div", "ul", "ol", "li", "table"}

IsContainerStart(ev) ==
    ev.kind = "start" /\ ev.tag = "div" /\ div_scan(ev.attrs, 1) = "match"

\* the event enters or leaves a block-level element or closes a cell
IsBlockTransition(ev) ==
    \/ IsStart(ev, BlockLevelTags \ {"div"})
    \/ IsContainerStart(ev)
    \/ IsEnd(ev, (BlockLevelTags \ {"div"}) \cup CellTags)
    \/ IsEnd(ev, {"div"}) /\ in_code_block

BufferEmptyAfterTransition ==
    [][(fuel' < fuel /\ pc' = "feeding" /\ IsBlockTransition(fed'[Len(fed')]))
       => text_buffer' = <<>>]_vars

(* C13 as amended.  The handlers that call a flush (Start heading,         *)
(* paragraph, code container, list container, list item, table, Start      *)
(* preformatted outside a container; End heading, paragraph, preformatted, *)
(* list item, cell) leave the buffer empty, and the text buffered before   *)
(* is committed before the event's own block is made: as one run of the    *)
(* paragraph that was current (of a new paragraph made first when none     *)
(* was), or, at End heading, as the new heading block; a blank buffer      *)
(* commits nothing.  Start preformatted inside a container, End code       *)
(* container, End list container and End table do not flush: they leave    *)
(* the buffer and the runs of the document as they were.                   *)
IsUnflushedTransition(ev) ==
    \/ IsStart(ev, {"pre"}) /\ in_code_block
    \/ IsEnd(ev, {"div", "ul", "ol", "table"})

\* the paragraph flush_text writes to in the state before the step
FlushTarget == IF current_paragraph = None THEN <<Len(doc) + 1>> ELSE current_paragraph

RunsAt(d, ref) ==
    IF Len(ref) = 1 /\ ref[1] > Len(d) THEN <<>> ELSE ParagraphAt(d, ref).runs

\* the step committed the buffer as the last run of the flush target and
\* as nothing else
CommittedToTarget ==
    /\ Len(RunsAt(doc', FlushTarget)) = Len(RunsAt(doc, FlushTarget)) + 1
    /\ SubSeq(RunsAt(doc', FlushTarget), 1, Len(RunsAt(doc, FlushTarget)))
          = RunsAt(doc, FlushTarget)
    /\ RunsAt(doc', FlushTarget)[Len(RunsAt(doc', FlushTarget))].text = text_buffer
    /\ Len(DocRuns(doc')) = Len(DocRuns(doc)) + 1

\* the block the event opened holds nothing yet
OpenedBlockIsEmpty(ev) ==
    /\ (IsStart(ev, {"p", "li", "pre"}) \/ IsContainerStart(ev)) =>
          /\ current_paragraph' = <<Len(doc')>>
          /\ doc'[Len(doc')].kind = "paragraph" /\ doc'[Len(doc')].runs = <<>>
    /\ IsStart(ev, {"table"}) =>
          /\ current_table' = <<Len(doc')>>
          /\ doc'[Len(doc')].kind = "table" /\ doc'[Len(doc')].rows = <<>>

FlushBeforeTransition ==
    [][(fuel' < fuel /\ pc' = "feeding" /\ IsBlockTransition(fed'[Len(fed')]))
       => IF IsUnflushedTransition(fed'[Len(fed')])
          THEN UNCHANGED <<text_buffer, doc>>
          ELSE /\ text_buffer' = <<>>
               /\ OpenedBlockIsEmpty(fed'[Len(fed')])
               /\ IF IsBlank(text_buffer)
                  THEN DocRuns(doc') = DocRuns(doc)
                       /\ \A b \in 1..Len(doc) : doc'[b] = doc[b]
                  ELSE IF IsEnd(fed'[Len(fed')], BlockLevelTags \ {"p", "pre", "li"})
                  THEN doc' = Append(doc, NewHeading(strip(text_buffer), heading_level))
                  ELSE CommittedToTarget]_vars

\* a Start p has just committed the text buffered before it to the
\* paragraph that was current and opened its own, still empty, paragraph
FlushBeforeTransitionWitness ==
    /\ After({<<"start", "p">>})
    /\ Len(doc) = 2
    /\ doc[1].kind = "paragraph" /\ Len(doc[1].runs) = 1
    /\ doc[2].runs = <<>>
    /\ current_paragraph = <<2>>

(* C14 (refuted by the code).  list_level is never negative, whatever      *)
(* Start and End list-container events arrive.  The End ul/ol branch       *)
(* subtracts one without looking at the value.                             *)
ListLevelNotNegative == list_level >= 0

(* C15.  Two html_to_docx calls with their own documents, run one after    *)
(* the other or interleaved event by event: at every point each call's     *)
(* parser and document are what that call's own events alone produce from  *)
(* a new parser, and after its final flush its document is the document    *)
(* of translating its fragment alone.                                      *)
AloneAfter(h, position) ==
    IF position = "done" THEN flush_text(ParserAfter(h)) ELSE ParserAfter(h)

CallsIsolated ==
    /\ Self = AloneAfter(fed, pc)
    /\ other.pc # "idle" => other.parser = AloneAfter(other.fed, other.pc)

\* the first call holds an open row of its table while the
\* second, fed a cell and text, has finished with the text in a plain
\* paragraph of its own document
CallsIsolatedWitness ==
    /\ pc = "feeding" /\ current_row # None
    /\ other.pc = "done"
    /\ other.fed = <<StartEv("td", <<>>), DataEv(<<"a">>)>>
    /\ other.parser.doc = <<[NewParagraph("Normal") EXCEPT !.runs = <<PlainRun(<<"a">>)>>]>>
    /\ doc # other.parser.doc

(* C16.  When a python-docx call raises during html_to_docx, the call     *)
(* stops at that event and the exception is what its caller gets: an       *)
(* exception has left html_to_docx exactly when it has stopped in "fault", *)
(* it is the one that was raised, and from then on no event is delivered,  *)
(* no call is made again and no final flush runs.                          *)
BuilderFaultPropagates ==
    [][/\ pc = "feeding" /\ raised = NoFault
       /\ (raised' # NoFault) <=> (pc' = "fault")
       /\ raised' # NoFault => raised' \in BuilderFaults]_vars

\* add_paragraph raised in the p handler after its flush_text had
\* committed the buffered text: the run is in the document, the new
\* paragraph is not, and MemoryError has left html_to_docx
BuilderFaultWitness ==
    /\ raised = "MemoryError" /\ pc = "fault"
    /\ After({<<"start", "p">>})
    /\ Len(doc) = 1 /\ Len(doc[1].runs) = 1
    /\ text_buffer = <<>>

(* C17.  process_mermaid_diagrams returns the text in which every mermaid *)
(* block whose image was generated is replaced by [MERMAID_DIAGRAM_i], i   *)
(* its 0-based rank among the blocks, and every other block and all other  *)
(* text are as they were; diagram_images lists the generated ones in rank  *)
(* order; and while the loop runs, the recorded offsets of the blocks it   *)
(* has yet to visit still delimit those blocks in processed_content.       *)
Generated == {diagram_images[k].index : k \in 1..Len(diagram_images)}

\* the text read left to right from pos, the blocks numbered from i, those
\* of `ok` replaced
RECURSIVE Substituted(_, _, _, _)
Substituted(c, pos, i, ok) ==
    LET f == FirstAt(c, "F", pos)
        e == IF f = 0 THEN 0 ELSE FirstAt(c, "E", f + 1)
    IN  IF e = 0 THEN SubSeq(c, pos, Len(c))
        ELSE SubSeq(c, pos, f - 1)
                \o (IF i \in ok THEN Placeholder(i) ELSE SubSeq(c, f, e))
                \o Substituted(c, e + 1, i + 1, ok)

PlaceholdersSubstituted ==
    /\ cpc = "processing" =>
          \A k \in 1..Len(pending) :
              SubSeq(processed_content, pending[k].start + 1, pending[k].end)
                 = pending[k].full_match
    /\ cpc = "processed" =>
          /\ processed_content = Substituted(markdown_content, 1, 0, Generated)
          /\ \A k \in 1..(Len(diagram_images) - 1) :
                diagram_images[k].index < diagram_images[k + 1].index

\* a text of two blocks of which the first was generated and the second
\* was not, with text after them
PlaceholdersSubstitutedWitness ==
    /\ cpc = "processed"
    /\ Len(extract_mermaid_diagrams(markdown_content)) = 2
    /\ Generated = {0}
    /\ processed_content = Placeholder(0) \o <<"F", "E", "x">>

(* C19.  After cleanup_temp_files returns, temp_files is empty and a       *)
(* tracked file exists only if its own removal raised, which was reported; *)
(* a removal that raises does not keep the files after it from being       *)
(* removed; and a further call changes nothing.                            *)
Reported == {warnings[k] : k \in 1..Len(warnings)}

CleanupComplete ==
    [][/\ cpc' = "cleaned" => temp_files' = <<>> /\ disk' \subseteq Reported'
       /\ cleanups >= 1 => UNCHANGED <<temp_files, disk, warnings>>]_vars

\* a cleanup has returned after the removal of one file raised and a file
\* after it in the list was removed
CleanupCompleteWitness ==
    /\ cpc = "cleaned"
    /\ warnings = <<PngPath(1)>>
    /\ disk = {PngPath(1)}
    /\ Len(diagram_images) = 2

(* C18 (refuted by the code).  After insert_mermaid_images, every          *)
(* paragraph of the translated document that held the placeholder of a     *)
(* generated diagram, whatever else it held, holds that diagram's picture, *)
(* and no text of the document holds such a placeholder any more.  The     *)
(* first placeholder found in a paragraph clears the paragraph, so a       *)
(* second placeholder in it is never seen and its picture never inserted;  *)
(* and the paragraphs of table cells are not visited.                      *)
HasToken(par, i) == IsSubstring(Placeholder(i), paragraph_text(par))

HasPicture(par, path) ==
    \E k \in 1..Len(par.runs) : par.runs[k] = PictureRun(path)

\* every paragraph of the document by its reference: those of the body
\* and those of the table cells
ParagraphRefs(d) ==
    {<<b>> : b \in {n \in 1..Len(d) : d[n].kind # "table"}}
        \cup UNION {UNION {{<<b, r, c>> : c \in 1..Len(d[b].rows[r])} :
                             r \in 1..Len(d[b].rows)} : b \in 1..Len(d)}

PicturesInserted ==
    [][(cpc = "processed" /\ cpc' = "inserted") =>
          \A k \in 1..Len(diagram_images) : \A ref \in ParagraphRefs(doc) :
              /\ HasToken(ParagraphAt(doc, ref), diagram_images[k].index) =>
                    HasPicture(ParagraphAt(doc', ref), diagram_images[k].path)
              /\ ~HasToken(ParagraphAt(doc', ref), diagram_images[k].index)]_vars

(* C20 (refuted by the code).  Every run flush_text adds while in_code or  *)
(* in_code_block is set is in Courier New; in particular every run added   *)
(* while the <pre> of a code container is open is, whatever tags were      *)
(* opened or closed inside it.  flush_text looks at in_code_block only     *)
(* under `if self.in_code`: with in_code reset by an inner </code>, or     *)
(* not yet set, text of the container is added as a plain run.             *)
CodeRunsStyled ==
    [][\A b \in Gained :
          ((in_code \/ in_code_block) \/ InContainerPre(fed)) =>
              AddedRun(b).font = "Courier New"]_vars

(* C21 (refuted by the code).  An End heading received while in_heading    *)
(* is false creates no heading and leaves the buffer and current_paragraph *)
(* as they were; a heading block appears only at an End heading received   *)
(* while in_heading is true.  The End heading branch calls                 *)
(* flush_text_as_heading whatever in_heading is.                           *)
HeadingTagSet == {HeadingTags[n] : n \in 1..Len(HeadingTags)}

HeadingCount(d) == Cardinality({b \in 1..Len(d) : d[b].kind = "heading"})

StrayEndHeadingIgnored ==
    [][fuel' < fuel =>
          /\ (IsEnd(fed'[Len(fed')], HeadingTagSet) /\ ~in_heading) =>
                /\ HeadingCount(doc') = HeadingCount(doc)
                /\ UNCHANGED <<text_buffer, current_paragraph>>
          /\ HeadingCount(doc') # HeadingCount(doc) =>
                IsEnd(fed'[Len(fed')], HeadingTagSet) /\ in_heading]_vars

(* C22 (refuted by the code).  After End table there is no current table,  *)
(* row or cell and current_paragraph is None, so text that follows a table *)
(* is never added to a cell of it, the last cell left unclosed included.   *)
(* The table branch of handle_endtag leaves current_paragraph as it was.   *)
CellRunCount(d) == SumSeq([b \in 1..Len(d) |-> Len(CellRuns(d[b]))])

NothingCurrentAfterTable ==
    [][fuel' < fuel =>
          /\ IsEnd(fed'[Len(fed')], {"table"}) =>
                /\ current_table' = None
                /\ current_row' = None
                /\ current_cell' = None
                /\ current_paragraph' = None
          /\ current_table = None =>
                CellRunCount(doc') = CellRunCount(doc)]_vars

(* C23.  A flush_text call on a buffer holding a non-whitespace character  *)
(* adds exactly one run, whose text is the whole untrimmed buffer, to      *)
(* current_paragraph, after appending a new Normal paragraph and making it *)
(* current exactly when current_paragraph was None; it then empties the    *)
(* buffer.  Stated on the steps whose handler is flush_text alone: End p,  *)
(* End li and the flush that follows parser.feed.                          *)
IsFlushStep ==
    /\ pc = "feeding"
    /\ \/ pc' = "done"
       \/ fuel' < fuel /\ IsEnd(fed'[Len(fed')], {"p", "li"})

FlushCommitsBuffer ==
    [][(IsFlushStep /\ ~IsBlank(text_buffer)) =>
          /\ text_buffer' = <<>>
          /\ Len(DocRuns(doc')) = Len(DocRuns(doc)) + 1
          /\ IF current_paragraph = None
             THEN /\ Len(doc') = Len(doc) + 1
                  /\ SubSeq(doc', 1, Len(doc)) = doc
                  /\ current_paragraph' = <<Len(doc')>>
                  /\ doc'[Len(doc')].kind = "paragraph"
                  /\ doc'[Len(doc')].style = "Normal"
                  /\ Len(doc'[Len(doc')].runs) = 1
                  /\ doc'[Len(doc')].runs[1].text = text_buffer
             ELSE /\ Len(doc') = Len(doc)
                  /\ current_paragraph' = current_paragraph
                  /\ LET before == ParagraphAt(doc, current_paragraph).runs
                         after  == ParagraphAt(doc', current_paragraph).runs
                     IN  /\ Len(after) = Len(before) + 1
                         /\ SubSeq(after, 1, Len(before)) = before
                         /\ after[Len(after)].text = text_buffer]_vars

\* End p has just committed " b" to the paragraph an earlier flush_text
\* created for "a" when no block was current
FlushCommitsBufferWitness ==
    /\ pc = "feeding" /\ fed # <<>> /\ IsEnd(LastFed, {"p"})
    /\ text_buffer = <<>>
    /\ Len(doc) = 1 /\ doc[1].style = "Normal"
    /\ doc[1].runs = <<PlainRun(<<"a">>), PlainRun(<<" ", "b">>)>>
    /\ current_paragraph = <<1>>

(* C24.  After every End heading current_paragraph is None and the buffer  *)
(* is empty, so text that follows the heading is committed by the next     *)
(* flush_text as the only run of a paragraph appended after the heading:   *)
(* the heading and every block before it stay as they were.                *)
TextAfter(s, t) == flush_text(handle_data(s, t))

HeadingClosesBlock ==
    [][(fuel' < fuel /\ IsEnd(fed'[Len(fed')], HeadingTagSet)) =>
          /\ current_paragraph' = None
          /\ text_buffer' = <<>>
          /\ \A t \in {x \in DataTexts : ~IsBlank(x)} :
                LET after == TextAfter(Self', t).doc
                IN  /\ Len(after) = Len(doc') + 1
                    /\ SubSeq(after, 1, Len(doc')) = doc'
                    /\ after[Len(after)].kind = "paragraph"
                    /\ Len(after[Len(after)].runs) = 1
                    /\ after[Len(after)].runs[1].text = t]_vars

\* End heading has just made a heading after a paragraph that was current
\* when the heading started
HeadingClosesBlockWitness ==
    /\ pc = "feeding" /\ fed # <<>> /\ IsEnd(LastFed, HeadingTagSet)
    /\ Len(doc) = 2
    /\ doc[1].kind = "paragraph" /\ doc[2].kind = "heading"
    /\ current_paragraph = None /\ text_buffer = <<>>

(* C25 (refuted by the code).  After the End div of a code container       *)
(* in_code_block is false and current_paragraph is None, so the text that  *)
(* follows goes to a new block.  The End div of a plain div nested in the  *)
(* container has already reset in_code_block (C26); the container's own    *)
(* End div then changes nothing and leaves current any paragraph opened in *)
(* between.                                                                *)
ClosesContainer(h, ev) ==
    /\ IsEnd(ev, {"div"})
    /\ OpenDivs(h) # <<>>
    /\ OpenDivs(h)[Len(OpenDivs(h))] = "container"

ContainerEndClosesBlock ==
    [][(fuel' < fuel /\ ClosesContainer(fed, fed'[Len(fed')])) =>
          /\ in_code_block' = FALSE
          /\ current_paragraph' = None]_vars

(* C26 (refuted by the code).  in_code_block changes only at the Start div *)
(* whose class holds the marker and at the End div that closes that div; a *)
(* div without the marker and its End div leave in_code_block and          *)
(* current_paragraph as they were, inside a container included.  The div   *)
(* branch of handle_endtag resets both at any End div.                     *)
ClosesPlainDiv(h, ev) ==
    /\ IsEnd(ev, {"div"})
    /\ OpenDivs(h) # <<>>
    /\ OpenDivs(h)[Len(OpenDivs(h))] = "plain"

ContainerModeMatchesDiv ==
    [][fuel' < fuel =>
          LET ev == fed'[Len(fed')]
          IN  /\ in_code_block' # in_code_block =>
                    IsContainerStart(ev) \/ ClosesContainer(fed, ev)
              /\ (IsStart(ev, {"div"}) /\ ~IsContainerStart(ev)) =>
                    UNCHANGED <<in_code_block, current_paragraph>>
              /\ ClosesPlainDiv(fed, ev) =>
                    UNCHANGED <<in_code_block, current_paragraph>>]_vars

(* C27.  Character data, Start br, Start and End span and tags no branch   *)
(* names leave the document, current_paragraph, the mode flags,            *)
(* heading_level, list_level and the table attributes as they were and     *)
(* raise nothing: character data appends its text to the buffer, Start br  *)
(* appends one newline, and the others leave the buffer alone too.         *)
BesidesBuffer ==
    <<doc, current_paragraph, in_code, in_heading, heading_level, list_level,
      current_table, current_row, current_cell, in_table_header,
      in_code_block, current_cell_index>>

IsIgnoredTag(ev) ==
    \/ IsStart(ev, {"span"} \cup UnknownTags)
    \/ IsEnd(ev, {"span"} \cup UnknownTags)

InlineEventsOnlyBuffer ==
    [][fuel' < fuel =>
          LET ev == fed'[Len(fed')]
          IN  /\ ev.kind = "data" =>
                    /\ UNCHANGED BesidesBuffer
                    /\ text_buffer' = text_buffer \o ev.text
                    /\ pc' = "feeding"
              /\ IsStart(ev, {"br"}) =>
                    /\ UNCHANGED BesidesBuffer
                    /\ text_buffer' = Append(text_buffer, "\n")
                    /\ pc' = "feeding"
              /\ IsIgnoredTag(ev) =>
                    /\ UNCHANGED ParserVars
                    /\ pc' = "feeding"]_vars

\* character data has just been appended to a buffer that held text and a
\* line break, a paragraph being current and still empty
InlineEventsOnlyBufferWitness ==
    /\ pc = "feeding" /\ fed # <<>> /\ LastFed.kind = "data"
    /\ text_buffer = <<"a", "\n", " ", "b">>
    /\ current_paragraph = <<1>> /\ doc[1].runs = <<>>

(* C28.  Every Start li, whatever list_level is (0, outside any list,      *)
(* included) and whichever of ul and ol was opened before it, flushes the  *)
(* buffer, appends an empty List Bullet paragraph and makes it current,    *)
(* and changes nothing else; and at every list event list_level has no     *)
(* effect on what the list handlers and flush_text do to the document and  *)
(* the other attributes.                                                   *)
ListLevels == {-1, 0, 2}

ListTags == {"ul", "ol", "li"}

ListEvents ==
    {StartEv("ul", <<>>), StartEv("ol", <<>>), StartEv("li", <<>>),
     EndEv("li"), EndEv("ul"), EndEv("ol")}

AtLevel(s, k) == [s EXCEPT !.list_level = k]

ListLevelUnread ==
    \A ev \in ListEvents : \A k \in ListLevels :
        /\ AtLevel(dispatch(AtLevel(Self, k), ev), 0)
              = AtLevel(dispatch(Self, ev), 0)
        /\ AtLevel(flush_text(AtLevel(Self, k)), 0)
              = AtLevel(flush_text(Self), 0)

ListItemIsBulleted ==
    [][/\ (fuel' < fuel /\ fed'[Len(fed')].tag \in ListTags) =>
             ListLevelUnread
       /\ (fuel' < fuel /\ IsStart(fed'[Len(fed')], {"li"})) =>
             /\ text_buffer' = <<>>
             /\ doc' = Append(flush_text(Self).doc, NewParagraph("List Bullet"))
             /\ current_paragraph' = <<Len(doc')>>
             /\ UNCHANGED <<in_code, in_heading, heading_level, list_level,
                            current_table, current_row, current_cell,
                            in_table_header, in_code_block,
                            current_cell_index>>
             /\ pc' = "feeding"]_vars

\* Start li outside any list has just committed the buffered "a" to a new
\* Normal paragraph and opened the item's paragraph after it
ListItemIsBulletedWitness ==
    /\ pc = "feeding" /\ fed # <<>> /\ IsStart(LastFed, {"li"})
    /\ list_level = 0
    /\ Len(doc) = 2
    /\ doc[1].style = "Normal" /\ doc[1].runs = <<PlainRun(<<"a">>)>>
    /\ doc[2] = NewParagraph("List Bullet")
    /\ current_paragraph = <<2>> /\ text_buffer = <<>>

(* C29.  When html_to_docx returns the buffer is empty: the flush_text     *)
(* that follows feed() has committed every non-whitespace character still  *)
(* buffered, as a run holding the whole buffer at the end of the current   *)
(* paragraph (a new one when none was current), text after the last tag    *)
(* and text of an element never closed alike.                              *)
FinalFlushCommits ==
    [][pc' = "done" =>
          /\ text_buffer' = <<>>
          /\ DocNonWs(doc') = DocNonWs(doc) + NonWs(text_buffer)
          /\ ~IsBlank(text_buffer) =>
                LET runs == ParagraphAt(doc', current_paragraph').runs
                IN  /\ current_paragraph' # None
                    /\ runs # <<>>
                    /\ runs[Len(runs)].text = text_buffer]_vars

\* html_to_docx has returned for <h1>a with the heading never closed: the
\* final flush_text committed "a"
FinalFlushCommitsWitness ==
    /\ pc = "done" /\ in_heading
    /\ fed # <<>> /\ LastFed.kind = "data"
    /\ text_buffer = <<>>
    /\ Len(doc) = 1 /\ doc[1].runs = <<PlainRun(<<"a">>)>>

(* C30.  In every reachable state a current row comes with a current       *)
(* table: the column loop of a Start td/th that finds a row always has a   *)
(* table to count the columns of and to grow.                              *)
RowImpliesTable == current_row # None => current_table # None

\* Start td has just grown the current table by a column for the cell it
\* opened in the current row
RowImpliesTableWitness ==
    /\ pc = "feeding" /\ fed # <<>> /\ IsStartCell(LastFed)
    /\ current_row # None /\ current_cell # None
    /\ current_table # None
    /\ doc[current_table[1]].cols = 1

(* C31 (refuted by the code).  In every reachable state a current row is a *)
(* row of the current table, so a Start td/th adds columns to, and selects *)
(* a cell of, the table that owns the current row.  Start table replaces   *)
(* current_table and leaves current_row, a row of the table before it.     *)
RowOfCurrentTable ==
    current_row # None =>
        /\ current_table # None
        /\ current_row[1] = current_table[1]

(* C32.  convert runs its steps in the order diagram pre-pass,             *)
(* translation, image substitution, save, cleanup of the temp files: cpc   *)
(* never goes back, the translation and the substitution run only after    *)
(* the pre-pass has returned, the substitution only after the translation, *)
(* the save only after both, and a file is removed only by the cleanup,    *)
(* which starts only once the save has finished or an exception has been   *)
(* caught.                                                                 *)
StepRank(c) ==
    CASE c = "reading" -> 0
      [] c = "idle" -> 1
      [] c = "processing" -> 2
      [] c = "processed" -> 3
      [] c = "inserted" -> 4
      [] c \in {"saved", "failed"} -> 5
      [] c = "cleaning" -> 6
      [] c = "cleaned" -> 7
      [] OTHER -> 8

ConvertStepsInOrder ==
    [][/\ StepRank(cpc') >= StepRank(cpc)
       /\ (pc' # pc \/ doc' # doc) => cpc = "processed"
       /\ cpc' = "inserted" => pc = "done"
       /\ cpc' = "saved" =>
             /\ pc = "done"
             /\ diagram_images # <<>> => cpc = "inserted"
       /\ disk \ disk' # {} => cpc = "cleaning"
       /\ (cpc' = "cleaning" /\ cpc # "cleaning") =>
             cpc \in {"saved", "failed"}]_vars

\* convert has returned True: the picture of diagram 0 is in the document,
\* the document is saved and the image file has been removed since
ConvertStepsInOrderWitness ==
    /\ cpc = "True"
    /\ OutputPath \in disk /\ PngPath(0) \notin disk
    /\ \E b \in 1..Len(doc) : doc[b].runs = <<PictureRun(PngPath(0))>>

(* C33.  Every convert call ends by returning a boolean with temp_files    *)
(* empty: True when no step raised, False when one did (reading the input, *)
(* generating a diagram, translating, substituting, saving); the exception *)
(* is not passed on to the caller.                                         *)
ConvertReturnsBoolean ==
    <>[](/\ cpc \in {"True", "False"}
         /\ cpc = "True" <=> raised = NoFault
         /\ temp_files = <<>>)

\* convert has returned False after the translation raised, the image
\* generated before it removed by the cleanup
ConvertReturnsBooleanWitness ==
    /\ cpc = "False" /\ raised = "TypeError" /\ pc = "fault"
    /\ diagram_images # <<>>
    /\ temp_files = <<>> /\ PngPath(0) \notin disk

(* C34.  In the base converter a generation that fails (no .mmd file, no   *)
(* image file left by mmdc) raises nothing: the turn of the loop ends with *)
(* the image path tracked, the diagram left out of diagram_images and its  *)
(* block left in processed_content, and the loop goes on with the next     *)
(* diagram; a diagram is listed only if its image exists.  When the call   *)
(* returns every diagram has been visited and exactly the blocks of the    *)
(* listed diagrams are replaced.                                           *)
Tracked == {temp_files[k] : k \in 1..Len(temp_files)}

FailedGenerationSkipped ==
    [][/\ (cpc = "processing" /\ pending # <<>>) =>
             LET i == Head(pending).index
             IN  /\ cpc' = "processing" /\ pending' = Tail(pending)
                 /\ PngPath(i) \in Tracked'
                 /\ i \in Generated' =>
                       PngPath(i) \in disk' /\ MmdPath(i) \in disk'
                 /\ (PngPath(i) \notin disk' \/ MmdPath(i) \notin disk') =>
                       /\ i \notin Generated'
                       /\ UNCHANGED <<diagram_images, processed_content>>
       /\ cpc' = "processed" =>
             /\ \A k \in 1..Len(extract_mermaid_diagrams(markdown_content)) :
                   PngPath(k - 1) \in Tracked'
             /\ processed_content'
                   = Substituted(markdown_content, 1, 0, Generated')]_vars

\* the call has returned for a text of two blocks: the image of the second
\* was generated, mmdc left none for the first, whose block is still there
FailedGenerationSkippedWitness ==
    /\ cpc = "processed"
    /\ markdown_content = <<"F", "E", "F", "E">>
    /\ PngPath(0) \notin disk /\ PngPath(0) \in Tracked
    /\ Generated = {1}
    /\ processed_content = <<"F", "E">> \o Placeholder(1)

(* C35 (refuted by the code).  In the online converter a call of           *)
(* generate_mermaid_image that produces no image raises OnlineMermaidError *)
(* and never returns False: every turn of the loop that ends without the   *)
(* exception has listed its diagram.  The result of                        *)
(* _generate_local_fallback is returned as it is, False included.          *)
OnlineNeverReturnsFalse ==
    [][(cpc = "processing" /\ online.at # "idle" /\ online'.at = "idle") =>
          Head(pending).index \in Generated']_vars

(* C36.  In the online converter's generate_mermaid_image the first thing  *)
(* invoked is the online service (its PNG request); mmdc is invoked only   *)
(* after the online attempt has ended without a verified image and only    *)
(* when fallback_local is set and a local mmdc was found; a turn in which   *)
(* the online attempt gave the image ends without invoking mmdc.            *)
Invoked(o, what) == \E k \in 1..Len(o.calls) : o.calls[k] = what

OnlineBeforeLocal ==
    [][/\ online'.calls # <<>> => online'.calls[1] = "png"
       /\ (online'.at = "local" /\ online.at # "local") =>
             /\ online.at \in {"png", "svg"}
             /\ online.fallback_local /\ online.local_mmdc_cmd
             /\ ~verify_image(online'.file)
       /\ (Invoked(online', "local") /\ ~Invoked(online, "local")) =>
             online.at = "local"
       /\ (online.at \in {"png", "svg"} /\ verify_image(online'.file)) =>
             /\ online'.at = "idle" /\ ~Invoked(online', "local")
             /\ Head(pending).index \in Generated']_vars

\* a turn has ended in which the PNG and the SVG requests gave no verified
\* image and mmdc, invoked last, gave one
OnlineBeforeLocalWitness ==
    /\ online.at = "idle"
    /\ online.calls = <<"png", "svg", "local">>
    /\ verify_image(online.file)
    /\ Generated # {}

(* C37.  In the online converter's process_mermaid_diagrams a generation   *)
(* that raises ends the call with OnlineMermaidError: nothing is returned, *)
(* the diagrams not yet visited are not attempted (no step follows), and   *)
(* the paths tracked so far, that of the failing diagram included, stay in *)
(* temp_files with their files on the disk.                                *)
OnlineFailureEndsCall ==
    [][/\ (cpc' = "failed" /\ cpc # "failed") =>
             /\ raised' = "OnlineMermaidError"
             /\ temp_files' = temp_files
             /\ PngPath(Head(pending).index) \in Tracked'
             /\ disk \subseteq disk'
             /\ UNCHANGED <<pending, diagram_images, processed_content>>
       /\ raised' # NoFault => cpc' = "failed"
       /\ cpc = "failed" => UNCHANGED vars]_vars

\* the generation of the first diagram visited, the last of two, raised:
\* its path is tracked and the other diagram was never attempted
OnlineFailureEndsCallWitness ==
    /\ cpc = "failed" /\ raised = "OnlineMermaidError"
    /\ Len(pending) = 2
    /\ Tracked = {PngPath(1)}
    /\ diagram_images = <<>>

(* C38.  _generate_online returns True only when the file it wrote to      *)
(* output_path opens as an image more than 50 pixels wide and more than 50 *)
(* pixels high; the PNG is always requested first, and the SVG is          *)
(* requested only second, only when cairosvg was imported and only when    *)
(* the PNG request left no such image.                                     *)
OnlineImageVerified ==
    [][/\ (online.at \in {"png", "svg"} /\ Head(pending).index \in Generated') =>
             /\ online'.file.exists /\ online'.file.image
             /\ online'.file.w > 50 /\ online'.file.h > 50
             /\ PngPath(Head(pending).index) \in disk'
       /\ \A k \in 1..Len(online'.calls) :
             online'.calls[k] = "svg" =>
                 k = 2 /\ online'.calls[1] = "png" /\ online'.cairosvg
       /\ (online'.at = "svg" /\ online.at # "svg") =>
             /\ online.at = "png" /\ online.cairosvg
             /\ ~(/\ online'.file.exists /\ online'.file.image
                  /\ online'.file.w > 50 /\ online'.file.h > 50)]_vars

\* a turn has ended with the image of the SVG request, the PNG request
\* before it having given no verified image
OnlineImageVerifiedWitness ==
    /\ online.at = "idle"
    /\ online.calls = <<"png", "svg">>
    /\ online.file = [exists |-> TRUE, image |-> TRUE, w |-> 51, h |-> 51]
    /\ Generated # {}

(* C39.  Two /convert requests in progress at the same time each have the  *)
(* converter they built: no path is tracked by both, and as long as a      *)
(* request is between its diagram pre-pass and its save every image it     *)
(* listed is on the disk, whatever the cleanup of the other request has    *)
(* removed.                                                                *)
OtherTracked == {other.temp_files[k] : k \in 1..Len(other.temp_files)}

RequestsIsolated ==
    /\ Tracked \cap OtherTracked = {}
    /\ cpc \in {"processing", "processed"} =>
          \A k \in 1..Len(diagram_images) : diagram_images[k].path \in disk
    /\ other.cpc \in {"processing", "processed"} => other.images \subseteq disk

\* the first request has cleaned up after two diagrams while the second
\* still waits to insert its image: only that image is left on the disk
RequestsIsolatedWitness ==
    /\ cpc = "cleaned" /\ temp_files = <<>>
    /\ Len(extract_mermaid_diagrams(markdown_content)) = 2
    /\ other.cpc = "processed"
    /\ other.images = {OtherPng} /\ disk = {OtherPng}

=============================================================================
